---- MODULE Spec2Model ----
(***************************************************************************)
(* Resilience primitives of jarakey-shared-middleware: the circuit breaker *)
(* (middleware/circuit_breaker.go) and the retry executor                  *)
(* (middleware/retry.go), as state machines.                               *)
(***************************************************************************)
EXTENDS Integers, Sequences, FiniteSets, TLC

\* ------------------------------------------------------------------ bounds
\* largest MaxFailures threshold a breaker is configured with
MaxN == 2
\* largest ResetTimeout (in clock ticks) a breaker is configured with
MaxReset == 2
\* the wall clock runs from 0 to MaxTime
MaxTime == 3
\* the failure counter is not incremented past MaxCount
MaxCount == 3
\* largest MaxAttempts a retry policy is configured with
MaxTries == 3
\* largest attempt index a backoff function is called with
MaxIndex == 5
\* largest number of checks registered with a health checker
MaxChecks == 2
\* largest number of AddCheck / RemoveCheck / SetTimeout calls made while a pass runs
MaxLate == 1
\* largest number of calls made on correlation contexts in one run
MaxCalls == 2
\* largest number of characters an identifier to sanitize has after its first run of
\* equal characters
MaxTail == 2

\* requests that arrive at the metrics middleware
MaxRequests == 3

\* ------------------------------------------------------------- the breaker
VARIABLES
    config,       \* cb.config: [MaxFailures, ResetTimeout]
    state,        \* cb.state
    failures,     \* cb.failures
    lastError,    \* cb.lastError
    lastFailure,  \* cb.lastFailure
    now,          \* the wall clock read by time.Now() / time.Since()
    pc,           \* per caller: where it is inside Execute / ExecuteWithResult
    outcome,      \* per caller: what fn returned, <<result, err>>
    ret,          \* per caller: what its last Execute / ExecuteWithResult returned
    calls,        \* per caller: invocations of fn by its current (or last) Execute
    records,      \* per caller: recordResult calls by its current (or last) Execute
    lastOp,       \* history: the last critical section run on the breaker, and the state it found
    prevOp,       \* history: when lastOp is a Ready(), the critical section before it
    lastReady,    \* history: what the most recent Ready() returned
    streak,       \* history: failures recorded since the breaker was last fresh (CLOSED, count 0)
    clean,        \* history: no override and no success-while-OPEN since the breaker was last fresh
    lastOpAt,     \* history: when lastOp is a ForceOpen(), the clock when it ran
    lastFailAt,   \* history: the clock when a failure was last recorded (ZeroTime: never)
    callers,      \* the callers that use the breaker in this run
    unlocked,     \* history: the fields of the breaker accessed so far without cb.mutex held
    got           \* history: the read-only accessor called in the last step and what it returned

cbVars == <<config, state, failures, lastError, lastFailure, now, pc, outcome, ret,
            calls, records, lastOp, prevOp, lastReady, streak, clean, lastOpAt,
            lastFailAt, callers, unlocked, got>>

\* --------------------------------------------------------------- the retry
VARIABLES
    rc,           \* the RetryConfig Retry is called on
    script,       \* the operation: what its i-th invocation returns
    rpc,          \* where Retry is: idle (not called), top, call (fn running), wait, done
    attempt,      \* Retry's loop variable
    delay,        \* Retry's delay
    nextDelay,    \* Retry's nextDelay
    lastErr,      \* Retry's lastErr
    cancelled,    \* ctx.Done() is closed
    invocations,  \* history: invocations of fn begun
    returned,     \* history: invocations of fn that have returned
    waits,        \* history: the waits begun, each with the invocations made before it
    rret,         \* what Retry returned
    cancelAt      \* history: where Retry was, and the invocations made, when ctx was cancelled

retryVars == <<rc, script, rpc, attempt, delay, nextDelay, lastErr, cancelled,
               invocations, returned, waits, rret, cancelAt>>

\* ----------------------------------------------------- the retry variants
\* RetryWithResult runs on the same policy, operation and context as Retry
VARIABLES
    wpc,          \* where RetryWithResult is: idle, top, call, wait, done
    wattempt,     \* its loop variable
    wdelay,       \* its delay
    wnextDelay,   \* its nextDelay
    wlastErr,     \* its lastErr
    winvocations, \* history: invocations of fn begun
    wwaits,       \* history: the waits begun, each with the invocations made before it
    wret          \* what RetryWithResult returned: [res, err]

withResultVars == <<wpc, wattempt, wdelay, wnextDelay, wlastErr, winvocations, wwaits, wret>>

\* RetryWithBackoff runs on the same policy, operation and context as Retry
VARIABLES
    backoffFunc,  \* the backoffFunc argument: one of the library's backoff functions and its base
    bpc,          \* where RetryWithBackoff is: idle, top, call, wait, done
    battempt,     \* its loop variable
    bdelay,       \* its delay (local to one iteration)
    blastErr,     \* its lastErr
    binvocations, \* history: invocations of fn begun
    bwaits,       \* history: the waits begun, each with the invocations made before it
    bret          \* what RetryWithBackoff returned

withBackoffVars == <<backoffFunc, bpc, battempt, bdelay, blastErr, binvocations, bwaits, bret>>

\* a call of one of the backoff functions
VARIABLES
    fnKind,       \* which function: Exponential, Linear, Constant, Fibonacci
    fnAttempt,    \* its attempt argument
    fnBase,       \* its baseDelay argument
    fnOut         \* what it returned (NoDuration: not called yet)

backoffVars == <<fnKind, fnAttempt, fnBase, fnOut>>

\* ------------------------------------------------------ the health checker
VARIABLES
    hchecks,      \* hc.checks: registered name -> what the check function does
    htimeout,     \* hc.timeout
    lateOps,      \* AddCheck / RemoveCheck / SetTimeout calls still to come once a pass runs
    hpc,          \* where CheckHealth is: idle (not called), collect, returned; crashed: the
                  \* process was ended by a panic
    snap,         \* CheckHealth's checks: the copy of hc.checks it took
    passTimeout,  \* CheckHealth's timeout: the copy of hc.timeout it took
    hctx,         \* CheckHealth's ctx: none, live or done
    parentDone,   \* the caller's context is cancelled
    inner,        \* per check of the pass: the goroutine running the check function
    outer,        \* per check of the pass: the goroutine selecting on resultChan and ctx.Done()
    results,      \* the results channel: the records sent and not yet received
    closed,       \* the results channel is closed
    deps,         \* CheckHealth's dependencies map
    overall,      \* CheckHealth's overallStatus
    snapshot      \* what CheckHealth returned

healthVars == <<hchecks, htimeout, lateOps, hpc, snap, passTimeout, hctx, parentDone, inner,
                outer, results, closed, deps, overall, snapshot>>

\* ------------------------------------------------- the health HTTP handler
VARIABLES
    httpStatus    \* the status code the handler wrote (NoResponse: none yet)

handlerVars == <<httpStatus>>

\* ------------------------------------------------- the correlation context
VARIABLES
    heap,         \* the CorrelationContext structs allocated so far; a pointer is an index
    scopes,       \* the context.Context values made so far: for each, the pointer stored under
                  \* "correlation_context" (NilPointer: none); scope 1 is context.Background()
    respHeaders,  \* the response headers the last middleware call set
    minted,       \* how many identifiers uuid.New() has generated
    lastCall      \* history: the last call made, its arguments, the scope it was given,
                  \* the scope it returned, and heap and minted as they were before it

corrVars == <<heap, scopes, respHeaders, minted, lastCall>>

\* a call of SanitizeCorrelationID
VARIABLES
    sanIn,        \* its argument, a string as the sequence of its characters' code points
    sanOut        \* what it returned (NoOutput: not called yet)

sanVars == <<sanIn, sanOut>>

\* ------------------------------------------------- the metrics middleware
VARIABLES
    httpRequestsInFlight, \* the gauge, per (method, endpoint)
    httpRequestsTotal,    \* the counter, per (method, endpoint, status)
    httpRequestDuration,  \* the histogram, per (method, endpoint): how many observations
    requests              \* the requests that arrived, each with r.Method, r.URL.Path,
                          \* wrappedWriter.statusCode and where its goroutine is: serving
                          \* (in next.ServeHTTP), returned (next.ServeHTTP returned), done
                          \* (the middleware returned), panicked (next.ServeHTTP panicked)

metricsVars == <<httpRequestsInFlight, httpRequestsTotal, httpRequestDuration, requests>>

vars == <<cbVars, retryVars, withResultVars, withBackoffVars, backoffVars, healthVars,
          handlerVars, corrVars, sanVars, metricsVars>>

\* a step of the breaker leaves the other components alone, and so on
OutsideBreaker ==
    UNCHANGED <<retryVars, withResultVars, withBackoffVars, backoffVars,
                healthVars, handlerVars, corrVars, sanVars,
                metricsVars>>
OutsideRetry ==
    UNCHANGED <<cbVars, withResultVars, withBackoffVars, backoffVars,
                healthVars, handlerVars, corrVars, sanVars,
                metricsVars>>
OutsideWithResult ==
    UNCHANGED <<cbVars, retryVars, withBackoffVars, backoffVars,
                healthVars, handlerVars, corrVars, sanVars,
                metricsVars>>
OutsideWithBackoff ==
    UNCHANGED <<cbVars, retryVars, withResultVars, backoffVars,
                healthVars, handlerVars, corrVars, sanVars,
                metricsVars>>
OutsideBackoff ==
    UNCHANGED <<cbVars, retryVars, withResultVars, withBackoffVars,
                healthVars, handlerVars, corrVars, sanVars,
                metricsVars>>
OutsideHealth ==
    UNCHANGED <<cbVars, retryVars, withResultVars, withBackoffVars,
                backoffVars, handlerVars, corrVars, sanVars,
                metricsVars>>
OutsideHandler ==
    UNCHANGED <<cbVars, retryVars, withResultVars, withBackoffVars,
                backoffVars, healthVars, corrVars, sanVars,
                metricsVars>>
OutsideCorrelation ==
    UNCHANGED <<cbVars, retryVars, withResultVars, withBackoffVars,
                backoffVars, healthVars, handlerVars, sanVars,
                metricsVars>>
OutsideSanitize ==
    UNCHANGED <<cbVars, retryVars, withResultVars, withBackoffVars,
                backoffVars, healthVars, handlerVars, corrVars,
                metricsVars>>

OutsideMetrics ==
    UNCHANGED <<cbVars, retryVars, withResultVars, withBackoffVars,
                backoffVars, healthVars, handlerVars, corrVars, sanVars>>

StateClosed == "CLOSED"
StateOpen == "OPEN"
StateHalfOpen == "HALF_OPEN"

\* CircuitBreakerState.String()
String(s) ==
    CASE s = StateClosed -> "CLOSED"
      [] s = StateOpen -> "OPEN"
      [] s = StateHalfOpen -> "HALF_OPEN"
      [] OTHER -> "UNKNOWN"

\* the nil error / nil result
Nil == "nil"
\* the errors an operation may return
Errs == {"e1", "e2"}
\* the callers of the breaker
Procs == {"p1", "p2"}

\* time.Time{}: the zero time, further in the past than any duration
ZeroTime == -1
MaxDuration == MaxTime + MaxReset + 1

\* time.Since(t)
Since(t) == IF t = ZeroTime THEN MaxDuration ELSE now - t

\* what fn may return: Execute's fn returns an error only
FnOutcomes(op) ==
    IF op = "Execute"
    THEN {<<Nil, e>> : e \in Errs \cup {Nil}}
    ELSE {<<"v", Nil>>, <<Nil, "e1">>, <<"v", "e2">>}

AllOutcomes == FnOutcomes("Execute") \cup FnOutcomes("ExecuteWithResult")

\* fmt.Errorf("circuit breaker is %s", cb.state.String())
BreakerOpenError(s) == "circuit breaker is " \o String(s)

Configs == [MaxFailures : 1..MaxN, ResetTimeout : 0..MaxReset]

\* the last step was not a call of an accessor
NotGot == [op |-> "-", val |-> Nil]

\* NewCircuitBreaker
InitCB(cfgs, cs) ==
    /\ config \in cfgs
    /\ callers = cs
    /\ state = StateClosed
    /\ failures = 0
    /\ lastError = Nil
    /\ lastFailure = ZeroTime
    /\ now = 0
    /\ pc = [p \in Procs |-> "idle"]
    /\ outcome = [p \in Procs |-> <<Nil, Nil>>]
    /\ ret = [p \in Procs |-> <<Nil, Nil>>]
    /\ calls = [p \in Procs |-> 0]
    /\ records = [p \in Procs |-> 0]
    /\ lastOp = [op |-> "New", from |-> StateClosed]
    /\ prevOp = "-"
    /\ lastReady = TRUE
    /\ streak = 0
    /\ clean = TRUE
    /\ lastOpAt = ZeroTime
    /\ lastFailAt = ZeroTime
    /\ unlocked = {}
    /\ got = NotGot

\* the bookkeeping of the history variables for one critical section
Logged(name) ==
    /\ lastOp' = [op |-> name, from |-> state]
    /\ prevOp' = IF name = "Ready" THEN lastOp.op ELSE "-"
    /\ lastOpAt' = IF name = "ForceOpen" THEN now ELSE ZeroTime
    /\ got' = NotGot
    /\ UNCHANGED <<callers, unlocked>>

\* a Ready() that needs more than ResetTimeout to have elapsed
ReadyState_StrictTimeout ==
    IF state = StateOpen /\ Since(lastFailure) > config.ResetTimeout
    THEN StateHalfOpen
    ELSE state

\* Ready(): the state the lazy OPEN -> HALF_OPEN transition leaves
ReadyState ==
    IF state = StateOpen /\ Since(lastFailure) >= config.ResetTimeout
    THEN StateHalfOpen
    ELSE state

\* Ready(): the critical section; its return value is kept in lastReady
ReadyBody ==
    /\ state' = ReadyState
    /\ lastReady' = (ReadyState # StateOpen)
    /\ Logged("Ready")
    /\ UNCHANGED <<config, failures, lastError, lastFailure, now, streak, clean, lastFailAt>>

\* a direct call of Ready()
Ready ==
    /\ OutsideBreaker
    /\ ReadyBody
    /\ UNCHANGED <<pc, outcome, ret, calls, records>>

\* a recordResult that trips only once the count exceeds the threshold
RecordFields_StrictThreshold(err) ==
    IF err # Nil
    THEN /\ failures' = failures + 1
         /\ lastError' = err
         /\ lastFailure' = now
         /\ state' = IF failures + 1 > config.MaxFailures THEN StateOpen ELSE state
    ELSE /\ failures' = 0
         /\ lastError' = Nil
         /\ lastFailure' = lastFailure
         /\ state' = IF state = StateHalfOpen THEN StateClosed ELSE state

\* a recordResult whose success branch forgets to clear the last error
RecordFields_KeepsLastError(err) ==
    IF err # Nil
    THEN /\ failures' = failures + 1
         /\ lastError' = err
         /\ lastFailure' = now
         /\ state' = IF failures + 1 >= config.MaxFailures THEN StateOpen ELSE state
    ELSE /\ failures' = 0
         /\ lastError' = lastError
         /\ lastFailure' = lastFailure
         /\ state' = IF state = StateHalfOpen THEN StateClosed ELSE state

\* a recordResult whose success branch leaves the failure count alone
RecordFields_KeepsCount(err) ==
    IF err # Nil
    THEN /\ failures' = failures + 1
         /\ lastError' = err
         /\ lastFailure' = now
         /\ state' = IF failures + 1 >= config.MaxFailures THEN StateOpen ELSE state
    ELSE /\ failures' = failures
         /\ lastError' = Nil
         /\ lastFailure' = lastFailure
         /\ state' = IF state = StateHalfOpen THEN StateClosed ELSE state

\* recordResult(err): the breaker's fields after it
RecordFields(err) ==
    IF err # Nil
    THEN /\ failures' = failures + 1
         /\ lastError' = err
         /\ lastFailure' = now
         /\ state' = IF failures + 1 >= config.MaxFailures THEN StateOpen ELSE state
    ELSE /\ failures' = 0
         /\ lastError' = Nil
         /\ lastFailure' = lastFailure
         /\ state' = IF state = StateHalfOpen THEN StateClosed ELSE state

\* recordResult(err): the critical section
recordResult(err) ==
    /\ RecordFields(err)
    /\ Logged(IF err # Nil THEN "recordFailure" ELSE "recordSuccess")
    /\ streak' = IF err # Nil THEN streak + 1 ELSE 0
    /\ clean' = IF err # Nil THEN clean ELSE (state' = StateClosed)
    /\ lastFailAt' = IF err # Nil THEN now ELSE lastFailAt
    /\ UNCHANGED <<config, now, lastReady>>

\* an Execute that calls Ready() but runs fn whatever it returned
ExecuteReady_IgnoresReady(p, op) ==
    /\ OutsideBreaker
    /\ p \in callers
    /\ pc[p] = "idle"
    /\ ReadyBody
    /\ pc' = [pc EXCEPT ![p] = op]
    /\ calls' = [calls EXCEPT ![p] = 0]
    /\ records' = [records EXCEPT ![p] = 0]
    /\ ret' = [ret EXCEPT ![p] = <<Nil, Nil>>]
    /\ UNCHANGED outcome

\* Execute / ExecuteWithResult, first statement: if !cb.Ready()
ExecuteReady(p, op) ==
    /\ OutsideBreaker
    /\ p \in callers
    /\ pc[p] = "idle"
    /\ ReadyBody
    /\ pc' = [pc EXCEPT ![p] = IF ReadyState # StateOpen THEN op ELSE "refused"]
    /\ calls' = [calls EXCEPT ![p] = 0]
    /\ records' = [records EXCEPT ![p] = 0]
    /\ ret' = [ret EXCEPT ![p] = <<Nil, Nil>>]
    /\ UNCHANGED outcome

\* Execute / ExecuteWithResult refused: the error is built from cb.state, read after
\* Ready() has returned and released cb.mutex
ExecuteRefuse(p) ==
    /\ OutsideBreaker
    /\ pc[p] = "refused"
    /\ ret' = [ret EXCEPT ![p] = <<Nil, BreakerOpenError(state)>>]
    /\ pc' = [pc EXCEPT ![p] = "idle"]
    /\ unlocked' = unlocked \cup {"state"}
    /\ UNCHANGED <<config, state, failures, lastError, lastFailure, now, outcome, calls,
                   records, lastOp, prevOp, lastReady, streak, clean, lastOpAt,
                   lastFailAt, callers>>
    /\ got' = NotGot

\* an Execute that invokes fn only while the breaker is not OPEN and no other caller
\* is between its Ready() and its recordResult
ExecuteFn_SingleFlight(p, o) ==
    /\ OutsideBreaker
    /\ pc[p] \in {"Execute", "ExecuteWithResult"}
    /\ state # StateOpen
    /\ \A q \in Procs \ {p} : pc[q] \notin {"Execute", "ExecuteWithResult", "record"}
    /\ o \in FnOutcomes(pc[p])
    /\ o[2] # Nil => failures < MaxCount
    /\ outcome' = [outcome EXCEPT ![p] = o]
    /\ calls' = [calls EXCEPT ![p] = @ + 1]
    /\ pc' = [pc EXCEPT ![p] = "record"]
    /\ UNCHANGED <<config, state, failures, lastError, lastFailure, now, ret,
                   records, lastOp, prevOp, lastReady, streak, clean, lastOpAt,
                   lastFailAt, callers, unlocked>>
    /\ got' = NotGot

\* err := fn()  /  result, err := fn()
ExecuteFn(p, o) ==
    /\ OutsideBreaker
    /\ pc[p] \in {"Execute", "ExecuteWithResult"}
    /\ o \in FnOutcomes(pc[p])
    /\ o[2] # Nil => failures < MaxCount
    /\ outcome' = [outcome EXCEPT ![p] = o]
    /\ calls' = [calls EXCEPT ![p] = @ + 1]
    /\ pc' = [pc EXCEPT ![p] = "record"]
    /\ UNCHANGED <<config, state, failures, lastError, lastFailure, now, ret,
                   records, lastOp, prevOp, lastReady, streak, clean, lastOpAt,
                   lastFailAt, callers, unlocked>>
    /\ got' = NotGot

\* an Execute that reports the breaker-open error when its own outcome trips the breaker
ExecuteRecord_ReportsTrip(p) ==
    /\ OutsideBreaker
    /\ pc[p] = "record"
    /\ recordResult(outcome[p][2])
    /\ records' = [records EXCEPT ![p] = @ + 1]
    /\ ret' = [ret EXCEPT ![p] = IF state # StateOpen /\ state' = StateOpen
                                 THEN <<Nil, BreakerOpenError(state')>>
                                 ELSE outcome[p]]
    /\ pc' = [pc EXCEPT ![p] = "idle"]
    /\ outcome' = [outcome EXCEPT ![p] = <<Nil, Nil>>]
    /\ UNCHANGED calls

\* cb.recordResult(err); return err  /  return result, err
ExecuteRecord(p) ==
    /\ OutsideBreaker
    /\ pc[p] = "record"
    /\ recordResult(outcome[p][2])
    /\ records' = [records EXCEPT ![p] = @ + 1]
    /\ ret' = [ret EXCEPT ![p] = outcome[p]]
    /\ pc' = [pc EXCEPT ![p] = "idle"]
    /\ outcome' = [outcome EXCEPT ![p] = <<Nil, Nil>>]
    /\ UNCHANGED calls

\* a ForceOpen that does not stamp the last-failure time
ForceOpen_NoTimestamp ==
    /\ OutsideBreaker
    /\ state' = StateOpen
    /\ lastFailure' = lastFailure
    /\ Logged("ForceOpen")
    /\ clean' = FALSE
    /\ UNCHANGED <<config, failures, lastError, now, pc, outcome, ret, calls, records,
                   lastReady, streak, lastFailAt>>

\* ForceOpen()
ForceOpen ==
    /\ OutsideBreaker
    /\ state' = StateOpen
    /\ lastFailure' = now
    /\ Logged("ForceOpen")
    /\ clean' = FALSE
    /\ UNCHANGED <<config, failures, lastError, now, pc, outcome, ret, calls, records,
                   lastReady, streak, lastFailAt>>

\* a ForceClose that keeps the failure count
ForceClose_KeepsFailures ==
    /\ OutsideBreaker
    /\ state' = StateClosed
    /\ failures' = failures
    /\ lastError' = Nil
    /\ Logged("ForceClose")
    /\ clean' = FALSE
    /\ streak' = 0
    /\ UNCHANGED <<config, lastFailure, now, pc, outcome, ret, calls, records, lastReady,
                   lastFailAt>>

\* ForceClose()
ForceClose ==
    /\ OutsideBreaker
    /\ state' = StateClosed
    /\ failures' = 0
    /\ lastError' = Nil
    /\ Logged("ForceClose")
    /\ clean' = FALSE
    /\ streak' = 0
    /\ UNCHANGED <<config, lastFailure, now, pc, outcome, ret, calls, records, lastReady,
                   lastFailAt>>

\* Reset()
Reset ==
    /\ OutsideBreaker
    /\ state' = StateClosed
    /\ failures' = 0
    /\ lastError' = Nil
    /\ lastFailure' = ZeroTime
    /\ Logged("Reset")
    /\ clean' = FALSE
    /\ streak' = 0
    /\ UNCHANGED <<config, now, pc, outcome, ret, calls, records, lastReady, lastFailAt>>

\* the wall clock advances
Tick ==
    /\ OutsideBreaker
    /\ now < MaxTime
    /\ now' = now + 1
    /\ UNCHANGED <<config, state, failures, lastError, lastFailure, pc, outcome, ret,
                   calls, records, lastOp, prevOp, lastReady, streak, clean, lastOpAt,
                   lastFailAt, callers, unlocked>>
    /\ got' = NotGot

\* the fields of the breaker are left as they are; only got changes
ReadOnly ==
    UNCHANGED <<config, state, failures, lastError, lastFailure, now, pc, outcome, ret,
                calls, records, lastOp, prevOp, lastReady, streak, clean, lastOpAt,
                lastFailAt, callers, unlocked>>

\* GetState()
GetState ==
    /\ OutsideBreaker
    /\ got' = [op |-> "GetState", val |-> state]
    /\ ReadOnly

\* GetFailures()
GetFailures ==
    /\ OutsideBreaker
    /\ got' = [op |-> "GetFailures", val |-> failures]
    /\ ReadOnly

\* GetLastError()
GetLastError ==
    /\ OutsideBreaker
    /\ got' = [op |-> "GetLastError", val |-> lastError]
    /\ ReadOnly

\* GetLastFailure()
GetLastFailure ==
    /\ OutsideBreaker
    /\ got' = [op |-> "GetLastFailure", val |-> lastFailure]
    /\ ReadOnly

\* GetStats(): "ready" is computed from the fields, without calling Ready()
StatsReady ==
    IF state = StateOpen /\ Since(lastFailure) >= config.ResetTimeout
    THEN TRUE
    ELSE state # StateOpen

\* a GetStats() that calls Ready() for its "ready" entry
GetStats_CallsReady ==
    /\ OutsideBreaker
    /\ got' = [op |-> "GetStats",
               val |-> [state |-> String(ReadyState), failures |-> failures,
                        max_failures |-> config.MaxFailures, last_error |-> lastError,
                        last_failure |-> lastFailure, ready |-> ReadyState # StateOpen,
                        reset_timeout |-> config.ResetTimeout]]
    /\ state' = ReadyState
    /\ UNCHANGED <<config, failures, lastError, lastFailure, now, pc, outcome, ret,
                   calls, records, lastOp, prevOp, lastReady, streak, clean, lastOpAt,
                   lastFailAt, callers, unlocked>>

\* GetStats()
GetStats ==
    /\ OutsideBreaker
    /\ got' = [op |-> "GetStats",
               val |-> [state |-> String(state), failures |-> failures,
                        max_failures |-> config.MaxFailures, last_error |-> lastError,
                        last_failure |-> lastFailure, ready |-> StatsReady,
                        reset_timeout |-> config.ResetTimeout]]
    /\ ReadOnly

\* the read-only accessors
Accessors ==
    \/ GetState
    \/ GetFailures
    \/ GetLastError
    \/ GetLastFailure
    \/ GetStats

NextCB ==
    \/ Ready
    \/ \E p \in Procs : ExecuteReady(p, "Execute")
    \/ \E p \in Procs : ExecuteReady(p, "ExecuteWithResult")
    \/ \E p \in Procs : ExecuteRefuse(p)
    \/ \E p \in Procs : \E o \in AllOutcomes : ExecuteFn(p, o)
    \/ \E p \in Procs : ExecuteRecord(p)
    \/ ForceOpen
    \/ ForceClose
    \/ Reset
    \/ Tick


\* ------------------------------------------------------- the retry executor
\* error values: shape "ptr" is a *RetryableError, "val" a RetryableError held by
\* value, "other" any other error (errors.New), "ctx" is ctx.Err(), "nil" is no error
NoError == [shape |-> "nil", code |-> 0]
CtxErr == [shape |-> "ctx", code |-> 0]
OpErrors ==
    {[shape |-> "ptr", code |-> 500], [shape |-> "ptr", code |-> 400],
     [shape |-> "val", code |-> 500], [shape |-> "other", code |-> 0]}

\* IsRetryableError: err.(*RetryableError) with its StatusCode in rc.RetryableErrors
IsRetryableError(cfg, err) ==
    /\ err.shape = "ptr"
    /\ \E statusCode \in cfg.RetryableErrors : err.code = statusCode

\* what Retry returns: err itself, or fmt.Errorf("max retry attempts (%d) exceeded: %w", n, err)
Returned(err) == [exceeded |-> FALSE, n |-> 0, err |-> err]
AttemptsExceeded(n, err) == [exceeded |-> TRUE, n |-> n, err |-> err]

\* the policies: durations in clock units, BackoffFactor as <<numerator, denominator>>
RetryConfigs ==
    [MaxAttempts : 0..MaxTries,
     InitialDelay : {10, 40},
     MaxDelay : {30},
     BackoffFactor : {<<2, 1>>, <<3, 2>>},
     RetryableErrors : {{500}},
     Jitter : BOOLEAN]

\* the operations: one outcome per invocation
Scripts == [1..MaxTries -> OpErrors \cup {NoError}]

\* what the i-th invocation of fn returns
OpResult(i) == IF i \in DOMAIN script THEN script[i] ELSE script[Len(script)]

\* a backoff that is not clamped to rc.MaxDelay
Backoff_Unclamped(cfg, d) ==
    (d * cfg.BackoffFactor[1]) \div cfg.BackoffFactor[2]

\* time.Duration(float64(delay) * rc.BackoffFactor), clamped to rc.MaxDelay
Backoff(cfg, d) ==
    LET nd == (d * cfg.BackoffFactor[1]) \div cfg.BackoffFactor[2]
    IN  IF nd > cfg.MaxDelay THEN cfg.MaxDelay ELSE nd

\* time.Duration(rand.Float64() * float64(nextDelay) * 0.1), rand.Float64() in [0, 1)
Jitters(cfg, nd) ==
    IF cfg.Jitter THEN {j \in 0..nd : j = 0 \/ 10 * j < nd} ELSE {0}

InitRetry(cfgs, scripts) ==
    /\ rc \in cfgs
    /\ script \in scripts
    /\ rpc = "idle"
    /\ attempt = 0
    /\ delay = 0
    /\ nextDelay = 0
    /\ lastErr = NoError
    /\ cancelled = FALSE
    /\ invocations = 0
    /\ returned = 0
    /\ waits = <<>>
    /\ rret = Returned(NoError)
    /\ cancelAt = [pos |-> "never", inv |-> 0]

\* return from Retry
RetryReturn(r) ==
    /\ rpc' = "done"
    /\ rret' = r

\* Retry is called: var lastErr error; delay := rc.InitialDelay; attempt := 0
RetryStart ==
    /\ OutsideRetry
    /\ rpc = "idle"
    /\ rpc' = "top"
    /\ attempt' = 0
    /\ delay' = rc.InitialDelay
    /\ lastErr' = NoError
    /\ UNCHANGED <<cancelAt, rc, script, nextDelay, cancelled, invocations, returned, waits, rret>>

\* a Retry that returns lastErr as it is when the loop ends
RetryTop_ReturnsLastErr ==
    /\ OutsideRetry
    /\ rpc = "top"
    /\ IF ~(attempt < rc.MaxAttempts)
       THEN /\ RetryReturn(Returned(lastErr))
            /\ UNCHANGED invocations
       ELSE IF cancelled
       THEN /\ RetryReturn(Returned(CtxErr))
            /\ UNCHANGED invocations
       ELSE /\ rpc' = "call"
            /\ invocations' = invocations + 1
            /\ UNCHANGED rret
    /\ UNCHANGED <<cancelAt, rc, script, attempt, delay, nextDelay, lastErr, cancelled, returned, waits>>

\* a loop that runs while attempt < rc.MaxAttempts - 1
RetryTop_OneAttemptShort ==
    /\ OutsideRetry
    /\ rpc = "top"
    /\ IF ~(attempt < rc.MaxAttempts - 1)
       THEN /\ RetryReturn(AttemptsExceeded(rc.MaxAttempts, lastErr))
            /\ UNCHANGED invocations
       ELSE IF cancelled
       THEN /\ RetryReturn(Returned(CtxErr))
            /\ UNCHANGED invocations
       ELSE /\ rpc' = "call"
            /\ invocations' = invocations + 1
            /\ UNCHANGED rret
    /\ UNCHANGED <<cancelAt, rc, script, attempt, delay, nextDelay, lastErr, cancelled, returned, waits>>

\* a loop that does not look at ctx.Done() before calling fn
RetryTop_NoCtxCheck ==
    /\ OutsideRetry
    /\ rpc = "top"
    /\ IF ~(attempt < rc.MaxAttempts)
       THEN /\ RetryReturn(AttemptsExceeded(rc.MaxAttempts, lastErr))
            /\ UNCHANGED invocations
       ELSE /\ rpc' = "call"
            /\ invocations' = invocations + 1
            /\ UNCHANGED rret
    /\ UNCHANGED <<cancelAt, rc, script, attempt, delay, nextDelay, lastErr, cancelled, returned, waits>>

\* the loop condition, the non-blocking check of ctx.Done(), and the call of fn
RetryTop ==
    /\ OutsideRetry
    /\ rpc = "top"
    /\ IF ~(attempt < rc.MaxAttempts)
       THEN /\ RetryReturn(AttemptsExceeded(rc.MaxAttempts, lastErr))
            /\ UNCHANGED invocations
       ELSE IF cancelled
       THEN /\ RetryReturn(Returned(CtxErr))
            /\ UNCHANGED invocations
       ELSE /\ rpc' = "call"
            /\ invocations' = invocations + 1
            /\ UNCHANGED rret
    /\ UNCHANGED <<cancelAt, rc, script, attempt, delay, nextDelay, lastErr, cancelled, returned, waits>>

\* a Retry without the last-attempt break: it waits after every retryable failure
RetryFnReturn_WaitsAfterLast ==
    /\ OutsideRetry
    /\ rpc = "call"
    /\ returned' = returned + 1
    /\ LET err == OpResult(invocations) IN
       IF err = NoError
       THEN /\ RetryReturn(Returned(NoError))
            /\ UNCHANGED <<lastErr, nextDelay, waits>>
       ELSE /\ lastErr' = err
            /\ IF ~IsRetryableError(rc, err)
               THEN /\ RetryReturn(Returned(err))
                    /\ UNCHANGED <<nextDelay, waits>>
               ELSE /\ \E jitter \in Jitters(rc, Backoff(rc, delay)) :
                            nextDelay' = Backoff(rc, delay) + jitter
                    /\ waits' = Append(waits, [after |-> invocations, d |-> delay])
                    /\ rpc' = "wait"
                    /\ UNCHANGED rret
    /\ UNCHANGED <<cancelAt, rc, script, attempt, delay, cancelled, invocations>>

\* a Retry that never asks whether the error is retryable: it waits and tries again
RetryFnReturn_RetriesAnyError ==
    /\ OutsideRetry
    /\ rpc = "call"
    /\ returned' = returned + 1
    /\ LET err == OpResult(invocations) IN
       IF err = NoError
       THEN /\ RetryReturn(Returned(NoError))
            /\ UNCHANGED <<lastErr, nextDelay, waits>>
       ELSE /\ lastErr' = err
            /\ IF attempt = rc.MaxAttempts - 1
               THEN /\ RetryReturn(AttemptsExceeded(rc.MaxAttempts, err))
                    /\ UNCHANGED <<nextDelay, waits>>
               ELSE /\ \E jitter \in Jitters(rc, Backoff(rc, delay)) :
                            nextDelay' = Backoff(rc, delay) + jitter
                    /\ waits' = Append(waits, [after |-> invocations, d |-> delay])
                    /\ rpc' = "wait"
                    /\ UNCHANGED rret
    /\ UNCHANGED <<cancelAt, rc, script, attempt, delay, cancelled, invocations>>

\* fn returns: success, last attempt, non-retryable error, or the next delay and the wait
RetryFnReturn ==
    /\ OutsideRetry
    /\ rpc = "call"
    /\ returned' = returned + 1
    /\ LET err == OpResult(invocations) IN
       IF err = NoError
       THEN /\ RetryReturn(Returned(NoError))
            /\ UNCHANGED <<lastErr, nextDelay, waits>>
       ELSE /\ lastErr' = err
            /\ IF attempt = rc.MaxAttempts - 1
               THEN /\ RetryReturn(AttemptsExceeded(rc.MaxAttempts, err))
                    /\ UNCHANGED <<nextDelay, waits>>
               ELSE IF ~IsRetryableError(rc, err)
               THEN /\ RetryReturn(Returned(err))
                    /\ UNCHANGED <<nextDelay, waits>>
               ELSE /\ \E jitter \in Jitters(rc, Backoff(rc, delay)) :
                            nextDelay' = Backoff(rc, delay) + jitter
                    /\ waits' = Append(waits, [after |-> invocations, d |-> delay])
                    /\ rpc' = "wait"
                    /\ UNCHANGED rret
    /\ UNCHANGED <<cancelAt, rc, script, attempt, delay, cancelled, invocations>>

\* case <-time.After(delay): delay = nextDelay; attempt++
RetryTimer ==
    /\ OutsideRetry
    /\ rpc = "wait"
    /\ delay' = nextDelay
    /\ attempt' = attempt + 1
    /\ rpc' = "top"
    /\ UNCHANGED <<cancelAt, rc, script, nextDelay, lastErr, cancelled, invocations, returned, waits, rret>>

\* case <-ctx.Done() while waiting: return ctx.Err()
RetryWaitCancelled ==
    /\ OutsideRetry
    /\ rpc = "wait"
    /\ cancelled
    /\ RetryReturn(Returned(CtxErr))
    /\ UNCHANGED <<cancelAt, rc, script, attempt, delay, nextDelay, lastErr, cancelled, invocations,
                   returned, waits>>

\* the caller's context is cancelled (before the call or during it)
Cancel ==
    /\ OutsideRetry
    /\ ~cancelled
    /\ rpc # "done"
    /\ cancelled' = TRUE
    /\ cancelAt' = [pos |-> rpc, inv |-> invocations]
    /\ UNCHANGED <<rc, script, rpc, attempt, delay, nextDelay, lastErr, invocations,
                   returned, waits, rret>>

NextRetry ==
    \/ RetryStart
    \/ RetryTop
    \/ RetryFnReturn
    \/ RetryTimer
    \/ RetryWaitCancelled
    \/ Cancel

\* ---------------------------------------------------------- RetryWithResult
\* the nil result, and the result value the i-th invocation of fn returns (it returns
\* one along with its error, too)
NilResult == 0
ResultOf(i) == i

\* what RetryWithResult returns
WithResult(res, r) == [res |-> res, err |-> r]

InitWithResult ==
    /\ wpc = "idle"
    /\ wattempt = 0
    /\ wdelay = 0
    /\ wnextDelay = 0
    /\ wlastErr = NoError
    /\ winvocations = 0
    /\ wwaits = <<>>
    /\ wret = WithResult(NilResult, Returned(NoError))

\* return from RetryWithResult
RetryWithResultReturn(res, r) ==
    /\ wpc' = "done"
    /\ wret' = WithResult(res, r)

\* RetryWithResult is called: var lastErr error; delay := rc.InitialDelay; attempt := 0
RetryWithResultStart ==
    /\ OutsideWithResult
    /\ wpc = "idle"
    /\ wpc' = "top"
    /\ wattempt' = 0
    /\ wdelay' = rc.InitialDelay
    /\ wlastErr' = NoError
    /\ UNCHANGED <<wnextDelay, winvocations, wwaits, wret>>

\* the loop condition, the non-blocking check of ctx.Done(), and the call of fn
RetryWithResultTop ==
    /\ OutsideWithResult
    /\ wpc = "top"
    /\ IF ~(wattempt < rc.MaxAttempts)
       THEN /\ RetryWithResultReturn(NilResult, AttemptsExceeded(rc.MaxAttempts, wlastErr))
            /\ UNCHANGED winvocations
       ELSE IF cancelled
       THEN /\ RetryWithResultReturn(NilResult, Returned(CtxErr))
            /\ UNCHANGED winvocations
       ELSE /\ wpc' = "call"
            /\ winvocations' = winvocations + 1
            /\ UNCHANGED wret
    /\ UNCHANGED <<wattempt, wdelay, wnextDelay, wlastErr, wwaits>>

\* a RetryWithResult that asks whether the error is retryable before it looks at the
\* attempt count
RetryWithResultFnReturn_ClassifiesFirst ==
    /\ OutsideWithResult
    /\ wpc = "call"
    /\ LET res == ResultOf(winvocations)
           err == OpResult(winvocations) IN
       IF err = NoError
       THEN /\ RetryWithResultReturn(res, Returned(NoError))
            /\ UNCHANGED <<wlastErr, wnextDelay, wwaits>>
       ELSE /\ wlastErr' = err
            /\ IF ~IsRetryableError(rc, err)
               THEN /\ RetryWithResultReturn(NilResult, Returned(err))
                    /\ UNCHANGED <<wnextDelay, wwaits>>
               ELSE IF wattempt = rc.MaxAttempts - 1
               THEN /\ RetryWithResultReturn(NilResult, AttemptsExceeded(rc.MaxAttempts, err))
                    /\ UNCHANGED <<wnextDelay, wwaits>>
               ELSE /\ \E jitter \in Jitters(rc, Backoff(rc, wdelay)) :
                            wnextDelay' = Backoff(rc, wdelay) + jitter
                    /\ wwaits' = Append(wwaits, [after |-> winvocations, d |-> wdelay])
                    /\ wpc' = "wait"
                    /\ UNCHANGED wret
    /\ UNCHANGED <<wattempt, wdelay, winvocations>>

\* fn returns: success with its result, last attempt, non-retryable error, or the next
\* delay and the wait
RetryWithResultFnReturn ==
    /\ OutsideWithResult
    /\ wpc = "call"
    /\ LET res == ResultOf(winvocations)
           err == OpResult(winvocations) IN
       IF err = NoError
       THEN /\ RetryWithResultReturn(res, Returned(NoError))
            /\ UNCHANGED <<wlastErr, wnextDelay, wwaits>>
       ELSE /\ wlastErr' = err
            /\ IF wattempt = rc.MaxAttempts - 1
               THEN /\ RetryWithResultReturn(NilResult, AttemptsExceeded(rc.MaxAttempts, err))
                    /\ UNCHANGED <<wnextDelay, wwaits>>
               ELSE IF ~IsRetryableError(rc, err)
               THEN /\ RetryWithResultReturn(NilResult, Returned(err))
                    /\ UNCHANGED <<wnextDelay, wwaits>>
               ELSE /\ \E jitter \in Jitters(rc, Backoff(rc, wdelay)) :
                            wnextDelay' = Backoff(rc, wdelay) + jitter
                    /\ wwaits' = Append(wwaits, [after |-> winvocations, d |-> wdelay])
                    /\ wpc' = "wait"
                    /\ UNCHANGED wret
    /\ UNCHANGED <<wattempt, wdelay, winvocations>>

\* case <-time.After(delay): delay = nextDelay; attempt++
RetryWithResultTimer ==
    /\ OutsideWithResult
    /\ wpc = "wait"
    /\ wdelay' = wnextDelay
    /\ wattempt' = wattempt + 1
    /\ wpc' = "top"
    /\ UNCHANGED <<wnextDelay, wlastErr, winvocations, wwaits, wret>>

\* case <-ctx.Done() while waiting: return nil, ctx.Err()
RetryWithResultWaitCancelled ==
    /\ OutsideWithResult
    /\ wpc = "wait"
    /\ cancelled
    /\ RetryWithResultReturn(NilResult, Returned(CtxErr))
    /\ UNCHANGED <<wattempt, wdelay, wnextDelay, wlastErr, winvocations, wwaits>>

\* ------------------------------------------------------ the backoff functions
RECURSIVE Pow(_, _)
\* math.Pow for a non-negative integer exponent
Pow(b, n) == IF n = 0 THEN 1 ELSE b * Pow(b, n - 1)

\* ExponentialBackoff: time.Duration(float64(baseDelay) * math.Pow(factor, float64(attempt)))
ExponentialBackoff(a, baseDelay, factor) ==
    (baseDelay * Pow(factor[1], a)) \div Pow(factor[2], a)

\* LinearBackoff: baseDelay * time.Duration(attempt+1)
LinearBackoff(a, baseDelay) == baseDelay * (a + 1)

\* ConstantBackoff
ConstantBackoff(a, baseDelay) == baseDelay

RECURSIVE FibLoop(_, _, _, _)
\* FibonacciBackoff's loop: for i := 2; i <= attempt; i++ { fib, prev = fib+prev, fib }
FibLoop(i, fib, prev, a) ==
    IF i <= a THEN FibLoop(i + 1, fib + prev, fib, a) ELSE fib

\* a FibonacciBackoff whose loop starts at i = 3
FibonacciBackoff_LateLoop(a, baseDelay) ==
    IF a <= 1 THEN baseDelay ELSE baseDelay * FibLoop(3, 1, 1, a)

\* FibonacciBackoff
FibonacciBackoff(a, baseDelay) ==
    IF a <= 1 THEN baseDelay ELSE baseDelay * FibLoop(2, 1, 1, a)

BackoffKinds == {"Exponential", "Linear", "Constant", "Fibonacci"}
\* the factor the exponential closure is built with
Doubling == <<2, 1>>

\* a backoffFunc closure, built from one of the four functions and a base delay, called
BackoffValue(kind, a, baseDelay) ==
    CASE kind = "Exponential" -> ExponentialBackoff(a, baseDelay, Doubling)
      [] kind = "Linear" -> LinearBackoff(a, baseDelay)
      [] kind = "Constant" -> ConstantBackoff(a, baseDelay)
      [] kind = "Fibonacci" -> FibonacciBackoff(a, baseDelay)

\* no duration: the function has not been called
NoDuration == -1
\* the base delays the functions are called with
BaseDelays == {1, 7, 100}

InitBackoff(kinds, attempts, bases) ==
    /\ fnKind \in kinds
    /\ fnAttempt \in attempts
    /\ fnBase \in bases
    /\ fnOut = NoDuration

\* the function is called on its arguments
CallBackoff ==
    /\ OutsideBackoff
    /\ fnOut = NoDuration
    /\ fnOut' = BackoffValue(fnKind, fnAttempt, fnBase)
    /\ UNCHANGED <<fnKind, fnAttempt, fnBase>>

\* the caller picks the next arguments
NextArguments ==
    /\ OutsideBackoff
    /\ fnOut # NoDuration
    /\ fnAttempt < MaxIndex
    /\ fnAttempt' = fnAttempt + 1
    /\ fnOut' = NoDuration
    /\ UNCHANGED <<fnKind, fnBase>>

\* backoff functions that are never called, for the specifications of the other components
BackoffUnused == InitBackoff({"Constant"}, {0}, {1})

\* --------------------------------------------------------- RetryWithBackoff
\* the backoffFunc arguments: closures over one of the four functions and a base delay
BackoffFuncs == [kind : BackoffKinds, base : {20}]

InitWithBackoff(funcs) ==
    /\ backoffFunc \in funcs
    /\ bpc = "idle"
    /\ battempt = 0
    /\ bdelay = 0
    /\ blastErr = NoError
    /\ binvocations = 0
    /\ bwaits = <<>>
    /\ bret = Returned(NoError)

\* return from RetryWithBackoff
RetryWithBackoffReturn(r) ==
    /\ bpc' = "done"
    /\ bret' = r

\* RetryWithBackoff is called: var lastErr error; attempt := 0
RetryWithBackoffStart ==
    /\ OutsideWithBackoff
    /\ bpc = "idle"
    /\ bpc' = "top"
    /\ battempt' = 0
    /\ blastErr' = NoError
    /\ UNCHANGED <<backoffFunc, bdelay, binvocations, bwaits, bret>>

\* a RetryWithBackoff whose loop does not look at ctx.Done() before calling fn
RetryWithBackoffTop_NoCtxCheck ==
    /\ OutsideWithBackoff
    /\ bpc = "top"
    /\ IF ~(battempt < rc.MaxAttempts)
       THEN /\ RetryWithBackoffReturn(AttemptsExceeded(rc.MaxAttempts, blastErr))
            /\ UNCHANGED binvocations
       ELSE /\ bpc' = "call"
            /\ binvocations' = binvocations + 1
            /\ UNCHANGED bret
    /\ UNCHANGED <<backoffFunc, battempt, bdelay, blastErr, bwaits>>

\* the loop condition, the non-blocking check of ctx.Done(), and the call of fn
RetryWithBackoffTop ==
    /\ OutsideWithBackoff
    /\ bpc = "top"
    /\ IF ~(battempt < rc.MaxAttempts)
       THEN /\ RetryWithBackoffReturn(AttemptsExceeded(rc.MaxAttempts, blastErr))
            /\ UNCHANGED binvocations
       ELSE IF cancelled
       THEN /\ RetryWithBackoffReturn(Returned(CtxErr))
            /\ UNCHANGED binvocations
       ELSE /\ bpc' = "call"
            /\ binvocations' = binvocations + 1
            /\ UNCHANGED bret
    /\ UNCHANGED <<backoffFunc, battempt, bdelay, blastErr, bwaits>>

\* a RetryWithBackoff that does not clamp the delay to rc.MaxDelay
CustomDelay_Unclamped(cfg, f, a) == BackoffValue(f.kind, a, f.base)

\* backoffFunc(attempt), clamped to rc.MaxDelay
CustomDelay(cfg, f, a) ==
    LET d == BackoffValue(f.kind, a, f.base)
    IN  IF d > cfg.MaxDelay THEN cfg.MaxDelay ELSE d

\* fn returns: success, last attempt, non-retryable error, or the custom delay and the wait
RetryWithBackoffFnReturn ==
    /\ OutsideWithBackoff
    /\ bpc = "call"
    /\ LET err == OpResult(binvocations) IN
       IF err = NoError
       THEN /\ RetryWithBackoffReturn(Returned(NoError))
            /\ UNCHANGED <<blastErr, bdelay, bwaits>>
       ELSE /\ blastErr' = err
            /\ IF battempt = rc.MaxAttempts - 1
               THEN /\ RetryWithBackoffReturn(AttemptsExceeded(rc.MaxAttempts, err))
                    /\ UNCHANGED <<bdelay, bwaits>>
               ELSE IF ~IsRetryableError(rc, err)
               THEN /\ RetryWithBackoffReturn(Returned(err))
                    /\ UNCHANGED <<bdelay, bwaits>>
               ELSE /\ bdelay' = CustomDelay(rc, backoffFunc, battempt)
                    /\ bwaits' = Append(bwaits, [after |-> binvocations,
                                                 d |-> CustomDelay(rc, backoffFunc, battempt)])
                    /\ bpc' = "wait"
                    /\ UNCHANGED bret
    /\ UNCHANGED <<backoffFunc, battempt, binvocations>>

\* case <-time.After(delay): attempt++
RetryWithBackoffTimer ==
    /\ OutsideWithBackoff
    /\ bpc = "wait"
    /\ battempt' = battempt + 1
    /\ bpc' = "top"
    /\ UNCHANGED <<backoffFunc, bdelay, blastErr, binvocations, bwaits, bret>>

\* case <-ctx.Done() while waiting: return ctx.Err()
RetryWithBackoffWaitCancelled ==
    /\ OutsideWithBackoff
    /\ bpc = "wait"
    /\ cancelled
    /\ RetryWithBackoffReturn(Returned(CtxErr))
    /\ UNCHANGED <<backoffFunc, battempt, bdelay, blastErr, binvocations, bwaits>>

\* a RetryWithBackoff that is never called, for the specifications of the other components
WithBackoffUnused == InitWithBackoff({[kind |-> "Constant", base |-> 10]})

\* ------------------------------------------------------- the health checker
StatusHealthy == "healthy"
StatusDegraded == "degraded"
StatusUnhealthy == "unhealthy"

\* the names checks are registered under
NameOf == <<"db", "cache", "api", "auth">>
Names == {NameOf[i] : i \in 1..MaxChecks}

\* what a check function does when called: return a record with one of the three
\* statuses or with some other status string, return nil, or never return; "panic",
\* a check function that panics, is registered by PanicBehaviours only
Behaviours == {"healthy", "degraded", "unhealthy", "other", "nil", "hang"}

\* a nil *DependencyHealth
NoRecord == [name |-> "", status |-> "", message |-> "<nil>"]

\* what check(ctx) returns (timestamps and details are left out)
CheckResult(b) ==
    CASE b = "nil" -> NoRecord
      [] b = "other" -> [name |-> "", status |-> "unknown", message |-> "own"]
      [] OTHER -> [name |-> "", status |-> b, message |-> "own"]

\* a receive that leaves the record's name as the check function set it
Normalised_OwnName(name, r) ==
    IF r # NoRecord
    THEN r
    ELSE [name |-> name, status |-> StatusUnhealthy, message |-> "Health check returned nil"]

\* a receive that sends a nil result on as it is
Normalised_KeepsNil(name, r) ==
    IF r # NoRecord
    THEN [r EXCEPT !.name = name]
    ELSE r

\* case result := <-resultChan: the record sent on for the check registered as name
Normalised(name, r) ==
    IF r # NoRecord
    THEN [r EXCEPT !.name = name]
    ELSE [name |-> name, status |-> StatusUnhealthy, message |-> "Health check returned nil"]

\* case <-ctx.Done(): the record sent for the check registered as name
TimeoutRecord(name) ==
    [name |-> name, status |-> StatusUnhealthy, message |-> "Health check timed out"]

\* a map with key k set to v
MapSet(m, k, v) == [x \in (DOMAIN m) \cup {k} |-> IF x = k THEN v ELSE m[x]]

\* a map without key k
MapDelete(m, k) == [x \in (DOMAIN m) \ {k} |-> m[x]]

\* countStatus
countStatus(dependencies, status) ==
    Cardinality({n \in DOMAIN dependencies : dependencies[n].status = status})

\* the timeout NewHealthChecker sets (seconds), and the timeouts SetTimeout is called with
DefaultTimeout == 30
Timeouts == {0, DefaultTimeout}

\* no snapshot: CheckHealth has not returned
NoSnapshot ==
    [status |-> "", dependencies |-> <<>>, total_checks |-> 0,
     healthy |-> 0, degraded |-> 0, unhealthy |-> 0]

\* NewHealthChecker; late is the number of registry calls the run makes after a pass began
InitHealth(late) ==
    /\ hchecks = <<>>
    /\ htimeout = DefaultTimeout
    /\ lateOps = late
    /\ hpc = "idle"
    /\ snap = <<>>
    /\ passTimeout = 0
    /\ hctx = "none"
    /\ parentDone = FALSE
    /\ inner = <<>>
    /\ outer = <<>>
    /\ results = <<>>
    /\ closed = FALSE
    /\ deps = <<>>
    /\ overall = StatusHealthy
    /\ snapshot = NoSnapshot

\* a registry whose lock CheckHealth holds until it returns
RegistryCall_BlockedByPass ==
    /\ hpc \in {"idle", "returned"}
    /\ hpc = "idle" \/ lateOps > 0
    /\ lateOps' = IF hpc = "idle" THEN lateOps ELSE lateOps - 1
    /\ UNCHANGED <<hpc, snap, passTimeout, hctx, parentDone, inner, outer, results, closed,
                   deps, overall, snapshot>>

\* a call of AddCheck, RemoveCheck or SetTimeout is made: before the pass, or out of lateOps
RegistryCall ==
    /\ hpc = "idle" \/ lateOps > 0
    /\ lateOps' = IF hpc = "idle" THEN lateOps ELSE lateOps - 1
    /\ UNCHANGED <<hpc, snap, passTimeout, hctx, parentDone, inner, outer, results, closed,
                   deps, overall, snapshot>>

\* AddCheck(name, check)
AddCheck(name, b) ==
    /\ OutsideHealth
    /\ RegistryCall
    /\ hchecks' = MapSet(hchecks, name, b)
    /\ UNCHANGED htimeout

\* RemoveCheck(name)
RemoveCheck(name) ==
    /\ OutsideHealth
    /\ RegistryCall
    /\ hchecks' = MapDelete(hchecks, name)
    /\ UNCHANGED htimeout

\* SetTimeout(timeout)
SetTimeout(t) ==
    /\ OutsideHealth
    /\ RegistryCall
    /\ htimeout' = t
    /\ UNCHANGED hchecks

\* CheckHealth up to its range loop: copy checks and timeout under the read lock,
\* derive ctx with the timeout, make the results channel, start the goroutines
CheckHealthStart ==
    /\ OutsideHealth
    /\ hpc = "idle"
    /\ hpc' = "collect"
    /\ snap' = hchecks
    /\ passTimeout' = htimeout
    /\ hctx' = IF parentDone \/ htimeout <= 0 THEN "done" ELSE "live"
    /\ inner' = [n \in DOMAIN hchecks |-> "running"]
    /\ outer' = [n \in DOMAIN hchecks |-> "select"]
    /\ results' = <<>>
    /\ closed' = FALSE
    /\ deps' = <<>>
    /\ overall' = StatusHealthy
    /\ UNCHANGED <<hchecks, htimeout, lateOps, parentDone, snapshot>>

\* the timer of context.WithTimeout fires
DeadlineFires ==
    /\ OutsideHealth
    /\ hpc = "collect"
    /\ hctx = "live"
    /\ hctx' = "done"
    /\ UNCHANGED <<hchecks, htimeout, lateOps, hpc, snap, passTimeout, parentDone, inner,
                   outer, results, closed, deps, overall, snapshot>>

\* the caller's context is cancelled
ParentCancel ==
    /\ OutsideHealth
    /\ hpc # "crashed"
    /\ ~parentDone
    /\ parentDone' = TRUE
    /\ hctx' = IF hctx = "live" THEN "done" ELSE hctx
    /\ UNCHANGED <<hchecks, htimeout, lateOps, hpc, snap, passTimeout, inner, outer,
                   results, closed, deps, overall, snapshot>>

\* a send on a resultChan made without a buffer: it needs the select to receive it
InnerReturns_Unbuffered(n) ==
    /\ OutsideHealth
    /\ hpc # "crashed"
    /\ n \in DOMAIN inner
    /\ inner[n] = "running"
    /\ outer[n] = "select"
    /\ snap[n] \notin {"hang", "panic"}
    /\ inner' = [inner EXCEPT ![n] = "sent"]
    /\ UNCHANGED <<hchecks, htimeout, lateOps, hpc, snap, passTimeout, hctx, parentDone,
                   outer, results, closed, deps, overall, snapshot>>

\* result := check(ctx); resultChan <- result (resultChan has room for it)
InnerReturns(n) ==
    /\ OutsideHealth
    /\ hpc # "crashed"
    /\ n \in DOMAIN inner
    /\ inner[n] = "running"
    /\ snap[n] \notin {"hang", "panic"}
    /\ inner' = [inner EXCEPT ![n] = "sent"]
    /\ UNCHANGED <<hchecks, htimeout, lateOps, hpc, snap, passTimeout, hctx, parentDone,
                   outer, results, closed, deps, overall, snapshot>>

\* check(ctx) panics in its goroutine, which has no deferred recover: the Go runtime
\* ends the process, and with it CheckHealth and every other goroutine
InnerPanics(n) ==
    /\ OutsideHealth
    /\ hpc \in {"collect", "returned"}
    /\ n \in DOMAIN inner
    /\ inner[n] = "running"
    /\ snap[n] = "panic"
    /\ hpc' = "crashed"
    /\ UNCHANGED <<hchecks, htimeout, lateOps, snap, passTimeout, hctx, parentDone, inner,
                   outer, results, closed, deps, overall, snapshot>>

\* case result := <-resultChan: results <- result; wg.Done()
OuterReceive(n) ==
    /\ OutsideHealth
    /\ hpc # "crashed"
    /\ n \in DOMAIN outer
    /\ outer[n] = "select"
    /\ inner[n] = "sent"
    /\ inner' = [inner EXCEPT ![n] = "taken"]
    /\ results' = Append(results, Normalised(n, CheckResult(snap[n])))
    /\ outer' = [outer EXCEPT ![n] = "done"]
    /\ UNCHANGED <<hchecks, htimeout, lateOps, hpc, snap, passTimeout, hctx, parentDone,
                   closed, deps, overall, snapshot>>

\* case <-ctx.Done(): results <- the timeout record; wg.Done()
OuterTimeout(n) ==
    /\ OutsideHealth
    /\ hpc # "crashed"
    /\ n \in DOMAIN outer
    /\ outer[n] = "select"
    /\ hctx = "done"
    /\ results' = Append(results, TimeoutRecord(n))
    /\ outer' = [outer EXCEPT ![n] = "done"]
    /\ UNCHANGED <<hchecks, htimeout, lateOps, hpc, snap, passTimeout, hctx, parentDone,
                   inner, closed, deps, overall, snapshot>>

\* a closer that also waits for the check functions to return
Joined_WithChecks == \A n \in DOMAIN outer : outer[n] = "done" /\ inner[n] # "running"

\* the goroutines the closer has to wait for
Joined == \A n \in DOMAIN outer : outer[n] = "done"

\* wg.Wait(); close(results)
HealthClose ==
    /\ OutsideHealth
    /\ hpc = "collect"
    /\ ~closed
    /\ Joined
    /\ closed' = TRUE
    /\ UNCHANGED <<hchecks, htimeout, lateOps, hpc, snap, passTimeout, hctx, parentDone,
                   inner, outer, results, deps, overall, snapshot>>

\* a switch that takes over a status that is none of the three
Worse_AnyStatus(o, status) ==
    CASE status = StatusUnhealthy -> StatusUnhealthy
      [] status = StatusDegraded -> IF o # StatusUnhealthy THEN StatusDegraded ELSE o
      [] status = StatusHealthy -> o
      [] OTHER -> status

\* a switch whose DEGRADED case overwrites whatever was there
Worse_LastWins(o, status) ==
    CASE status = StatusUnhealthy -> StatusUnhealthy
      [] status = StatusDegraded -> StatusDegraded
      [] OTHER -> o

\* the switch on result.Status
Worse(o, status) ==
    CASE status = StatusUnhealthy -> StatusUnhealthy
      [] status = StatusDegraded -> IF o # StatusUnhealthy THEN StatusDegraded ELSE o
      [] OTHER -> o

\* one iteration of for result := range results; result.Name on a nil result is a nil
\* pointer dereference, a panic in the goroutine that called CheckHealth
Collect ==
    /\ OutsideHealth
    /\ hpc = "collect"
    /\ results # <<>>
    /\ results' = Tail(results)
    /\ IF Head(results) = NoRecord
       THEN /\ hpc' = "crashed"
            /\ UNCHANGED <<deps, overall>>
       ELSE /\ deps' = MapSet(deps, Head(results).name, Head(results))
            /\ overall' = Worse(overall, Head(results).status)
            /\ UNCHANGED hpc
    /\ UNCHANGED <<hchecks, htimeout, lateOps, snap, passTimeout, hctx, parentDone,
                   inner, outer, closed, snapshot>>

\* the range loop ends on the closed, drained channel; CheckHealth returns the map
\* and its deferred cancel() runs
HealthReturn ==
    /\ OutsideHealth
    /\ hpc = "collect"
    /\ results = <<>>
    /\ closed
    /\ hpc' = "returned"
    /\ snapshot' = [status |-> overall,
                    dependencies |-> deps,
                    total_checks |-> Cardinality(DOMAIN snap),
                    healthy |-> countStatus(deps, StatusHealthy),
                    degraded |-> countStatus(deps, StatusDegraded),
                    unhealthy |-> countStatus(deps, StatusUnhealthy)]
    /\ hctx' = "done"
    /\ UNCHANGED <<hchecks, htimeout, lateOps, snap, passTimeout, parentDone, inner, outer,
                   results, closed, deps, overall>>

NextHealth ==
    \/ \E n \in Names : \E b \in Behaviours : AddCheck(n, b)
    \/ \E n \in Names : RemoveCheck(n)
    \/ \E t \in Timeouts : SetTimeout(t)
    \/ CheckHealthStart
    \/ DeadlineFires
    \/ ParentCancel
    \/ \E n \in Names : InnerReturns(n)
    \/ \E n \in Names : OuterReceive(n)
    \/ \E n \in Names : OuterTimeout(n)
    \/ HealthClose
    \/ Collect
    \/ HealthReturn

\* ------------------------------------------------- the health HTTP handler
\* net/http status codes
StatusOK == 200
StatusServiceUnavailable == 503
StatusInternalServerError == 500

\* the handler has not called WriteHeader
NoResponse == 0

InitHandler == httpStatus = NoResponse

\* the switch on health["status"]
HTTPStatusFor(status) ==
    CASE status = "healthy" -> StatusOK
      [] status = "degraded" -> StatusOK
      [] status = "unhealthy" -> StatusServiceUnavailable
      [] OTHER -> StatusInternalServerError

\* the handler, from the return of its hc.CheckHealth(ctx) on: choose the status code
\* and write it
HandlerRespond ==
    /\ OutsideHandler
    /\ hpc = "returned"
    /\ httpStatus = NoResponse
    /\ httpStatus' = HTTPStatusFor(snapshot.status)

\* ------------------------------------------------- the correlation context
\* the nil *CorrelationContext, and the scope context.Background()
NilPointer == 0
Background == 1

\* the four correlation headers of a request or a response; "" is an absent header
\* (Header.Get returns "" for it)
NoHeaders == [corr |-> "", req |-> "", trace |-> "", span |-> ""]
Headers == [corr : {"", "c-1"}, req : {"", "r-1"}, trace : {"", "t-1"}, span : {"", "s-1"}]

\* the user and session identifiers the setters are called with
UserIDs == {"u-1", "u-2"}
SessionIDs == {"w-1"}

\* uuid.New().String(): the identifier generated when k have been generated before
UUIDOf == <<"uuid-1", "uuid-2", "uuid-3", "uuid-4", "uuid-5", "uuid-6", "uuid-7", "uuid-8">>
NewUUID(k) == UUIDOf[k + 1]

\* no call made yet
NoCall ==
    [op |-> "none", n |-> 0, headers |-> NoHeaders, arg |-> "", from |-> Background,
     to |-> Background, heap |-> <<>>, minted |-> 0]

\* a call op with headers h and argument arg, given scope from and returning scope to
Called(op, h, arg, from, to) ==
    [op |-> op, n |-> lastCall.n + 1, headers |-> h, arg |-> arg, from |-> from,
     to |-> to, heap |-> heap, minted |-> minted]

InitCorrelation ==
    /\ heap = <<>>
    /\ scopes = <<NilPointer>>
    /\ respHeaders = NoHeaders
    /\ minted = 0
    /\ lastCall = NoCall

\* &CorrelationContext{CorrelationID: ..., RequestID: ..., TraceID: ..., SpanID: ...}
NewCorrelationContext(correlationID, requestID, traceID, spanID) ==
    [CorrelationID |-> correlationID, RequestID |-> requestID, TraceID |-> traceID,
     SpanID |-> spanID, UserID |-> "", SessionID |-> ""]

\* an extraction that prefers the trace ID header
extractCorrelationID_TraceFirst(h, fresh) ==
    IF h.trace # "" THEN h.trace
    ELSE IF h.corr # "" THEN h.corr
    ELSE IF h.req # "" THEN h.req
    ELSE fresh

\* extractCorrelationID(r); fresh is what uuid.New().String() returns if it is called
extractCorrelationID(h, fresh) ==
    IF h.corr # "" THEN h.corr
    ELSE IF h.req # "" THEN h.req
    ELSE IF h.trace # "" THEN h.trace
    ELSE fresh

\* the body shared by CorrelationMiddleware and GinCorrelationMiddleware, for a request
\* with headers h: derive the identifiers, build the context, attach it to a new scope
\* made from the request's, set the response headers
DeriveContextFor(op, h, origin) ==
    LET correlationID == extractCorrelationID(h, NewUUID(minted))
        minted1 == IF correlationID = NewUUID(minted) THEN minted + 1 ELSE minted
        requestID == IF h.req = "" THEN NewUUID(minted1) ELSE h.req
        minted2 == IF h.req = "" THEN minted1 + 1 ELSE minted1
    IN  /\ heap' = Append(heap, NewCorrelationContext(correlationID, requestID, h.trace, h.span))
        /\ scopes' = Append(scopes, Len(heap) + 1)
        /\ respHeaders' = [corr |-> correlationID, req |-> requestID,
                           trace |-> h.trace, span |-> h.span]
        /\ minted' = minted2
        /\ lastCall' = Called(op, h, "", origin, Len(scopes) + 1)

\* the same for a request that arrives from outside: its own scope is Background
DeriveContext(op, h) == DeriveContextFor(op, h, Background)

\* the handler CorrelationMiddleware() wraps around next, up to next.ServeHTTP
CorrelationMiddleware(h) ==
    /\ OutsideCorrelation
    /\ lastCall.n < MaxCalls
    /\ DeriveContext("CorrelationMiddleware", h)

\* the handler GinCorrelationMiddleware() returns, up to c.Next()
GinCorrelationMiddleware(h) ==
    /\ OutsideCorrelation
    /\ lastCall.n < MaxCalls
    /\ DeriveContext("GinCorrelationMiddleware", h)

\* GetCorrelationContext(ctx)
GetCorrelationContext(ctx) == scopes[ctx]

\* GetCorrelationID(ctx)
GetCorrelationID(ctx) ==
    IF GetCorrelationContext(ctx) # NilPointer
    THEN heap[GetCorrelationContext(ctx)].CorrelationID
    ELSE ""

\* GetRequestID(ctx)
GetRequestID(ctx) ==
    IF GetCorrelationContext(ctx) # NilPointer
    THEN heap[GetCorrelationContext(ctx)].RequestID
    ELSE ""

\* GetUserID(ctx)
GetUserID(ctx) ==
    IF GetCorrelationContext(ctx) # NilPointer
    THEN heap[GetCorrelationContext(ctx)].UserID
    ELSE ""

\* GetSessionID(ctx)
GetSessionID(ctx) ==
    IF GetCorrelationContext(ctx) # NilPointer
    THEN heap[GetCorrelationContext(ctx)].SessionID
    ELSE ""

\* SetUserID(ctx, userID): the struct ctx points to is written, and a new scope is
\* made that holds the same pointer
SetUserID(ctx, userID) ==
    /\ OutsideCorrelation
    /\ lastCall.n < MaxCalls
    /\ ctx \in DOMAIN scopes
    /\ IF GetCorrelationContext(ctx) # NilPointer
       THEN /\ heap' = [heap EXCEPT ![GetCorrelationContext(ctx)].UserID = userID]
            /\ scopes' = Append(scopes, GetCorrelationContext(ctx))
            /\ lastCall' = Called("SetUserID", NoHeaders, userID, ctx, Len(scopes) + 1)
       ELSE /\ UNCHANGED <<heap, scopes>>
            /\ lastCall' = Called("SetUserID", NoHeaders, userID, ctx, ctx)
    /\ UNCHANGED <<respHeaders, minted>>

\* SetSessionID(ctx, sessionID)
SetSessionID(ctx, sessionID) ==
    /\ OutsideCorrelation
    /\ lastCall.n < MaxCalls
    /\ ctx \in DOMAIN scopes
    /\ IF GetCorrelationContext(ctx) # NilPointer
       THEN /\ heap' = [heap EXCEPT ![GetCorrelationContext(ctx)].SessionID = sessionID]
            /\ scopes' = Append(scopes, GetCorrelationContext(ctx))
            /\ lastCall' = Called("SetSessionID", NoHeaders, sessionID, ctx, Len(scopes) + 1)
       ELSE /\ UNCHANGED <<heap, scopes>>
            /\ lastCall' = Called("SetSessionID", NoHeaders, sessionID, ctx, ctx)
    /\ UNCHANGED <<respHeaders, minted>>

\* WithCorrelationContext(ctx, correlationID, requestID, traceID, spanID); the four
\* identifiers are the fields of ids
WithCorrelationContext(ctx, ids) ==
    /\ OutsideCorrelation
    /\ lastCall.n < MaxCalls
    /\ ctx \in DOMAIN scopes
    /\ heap' = Append(heap, NewCorrelationContext(ids.corr, ids.req, ids.trace, ids.span))
    /\ scopes' = Append(scopes, Len(heap) + 1)
    /\ lastCall' = Called("WithCorrelationContext", ids, "", ctx, Len(scopes) + 1)
    /\ UNCHANGED <<respHeaders, minted>>

\* a propagation that leaves the span ID out
PropagateCorrelationHeaders_NoSpan(h, ctx) ==
    IF GetCorrelationContext(ctx) # NilPointer
    THEN LET corrCtx == heap[GetCorrelationContext(ctx)] IN
         [corr |-> IF corrCtx.CorrelationID # "" THEN corrCtx.CorrelationID ELSE h.corr,
          req |-> IF corrCtx.RequestID # "" THEN corrCtx.RequestID ELSE h.req,
          trace |-> IF corrCtx.TraceID # "" THEN corrCtx.TraceID ELSE h.trace,
          span |-> h.span]
    ELSE h

\* PropagateCorrelationHeaders(req, ctx): the headers of req after it, h before it
PropagateCorrelationHeaders(h, ctx) ==
    IF GetCorrelationContext(ctx) # NilPointer
    THEN LET corrCtx == heap[GetCorrelationContext(ctx)] IN
         [corr |-> IF corrCtx.CorrelationID # "" THEN corrCtx.CorrelationID ELSE h.corr,
          req |-> IF corrCtx.RequestID # "" THEN corrCtx.RequestID ELSE h.req,
          trace |-> IF corrCtx.TraceID # "" THEN corrCtx.TraceID ELSE h.trace,
          span |-> IF corrCtx.SpanID # "" THEN corrCtx.SpanID ELSE h.span]
    ELSE h

\* an outbound request is made in scope ctx, PropagateCorrelationHeaders writes the
\* scope's headers onto it, and the service it is sent to runs CorrelationMiddleware
\* on it
Propagated(ctx) ==
    /\ OutsideCorrelation
    /\ lastCall.n < MaxCalls
    /\ ctx \in DOMAIN scopes
    /\ DeriveContextFor("PropagateCorrelationHeaders",
                        PropagateCorrelationHeaders(NoHeaders, ctx), ctx)

NextCorrelation ==
    \/ \E ctx \in 1..(MaxCalls + 1) : Propagated(ctx)
    \/ \E h \in Headers : CorrelationMiddleware(h)
    \/ \E h \in Headers : GinCorrelationMiddleware(h)
    \/ \E ctx \in 1..(MaxCalls + 1) : \E u \in UserIDs : SetUserID(ctx, u)
    \/ \E ctx \in 1..(MaxCalls + 1) : \E w \in SessionIDs : SetSessionID(ctx, w)
    \/ \E ctx \in 1..(MaxCalls + 1) : \E ids \in Headers : WithCorrelationContext(ctx, ids)

\* no correlation context is made, for the specifications of the other components
CorrelationUnused == InitCorrelation

\* ------------------------------------------------ SanitizeCorrelationID
\* the length from which SanitizeCorrelationID truncates
TruncateAt == 64

\* "..."
Ellipsis == <<46, 46, 46>>

\* SanitizeCorrelationID has not returned
NoOutput == <<-1>>

\* the characters identifiers are made of here: a Z 7 - _ @ # $
Alphabet == {97, 90, 55, 45, 95, 64, 35, 36}

\* strings.Repeat(string(c), k)
Repeat(c, k) == [i \in 1..k |-> c]

\* the identifiers SanitizeCorrelationID is called with: a run of one character, of
\* length 0, 1 or around the truncation length, then up to MaxTail of another
Identifiers ==
    {Repeat(c, k) \o Repeat(d, t) :
        c \in Alphabet, d \in Alphabet,
        k \in {0, 1, TruncateAt - 1, TruncateAt}, t \in 0..MaxTail}

\* the function given to strings.Map: does it keep the character r
Keep(r) ==
    \/ (r >= 48 /\ r <= 57)
    \/ (r >= 97 /\ r <= 122)
    \/ (r >= 65 /\ r <= 90)
    \/ r = 45
    \/ r = 95

\* strings.Map(f, s) for an f that keeps or drops
Map(s) == SelectSeq(s, Keep)

\* SanitizeCorrelationID(correlationID)
SanitizeCorrelationID(correlationID) ==
    IF correlationID = <<>> THEN <<>>
    ELSE IF Len(correlationID) > TruncateAt
    THEN SubSeq(correlationID, 1, TruncateAt) \o Ellipsis
    ELSE Map(correlationID)

InitSanitize(ids) ==
    /\ sanIn \in ids
    /\ sanOut = NoOutput

\* the call
CallSanitize ==
    /\ OutsideSanitize
    /\ sanOut = NoOutput
    /\ sanOut' = SanitizeCorrelationID(sanIn)
    /\ UNCHANGED sanIn

\* ------------------------------------------------- the metrics middleware
\* r.Method and r.URL.Path of the requests, and the status codes the handlers write
Methods == {"GET", "POST"}
Paths == {"/a", "/b"}
Written == {200, 500}

\* the label values of the gauge and the histogram
Labels == Methods \X Paths

\* gauge.Inc(), gauge.Dec() and counter.Inc() on the child with these label values
Inc(vec, l) == [vec EXCEPT ![l] = @ + 1]
Dec(vec, l) == [vec EXCEPT ![l] = @ - 1]

\* the label values RecordHTTPRequestStart and RecordHTTPRequestEnd are given for request q
LabelsOf(q) == <<requests[q].Method, requests[q].Path>>

\* NewMetricsRegistry: no request yet
InitMetrics ==
    /\ httpRequestsInFlight = [l \in Labels |-> 0]
    /\ httpRequestsTotal = [l \in Labels \X Written |-> 0]
    /\ httpRequestDuration = [l \in Labels |-> 0]
    /\ requests = <<>>

\* RecordHTTPRequestStart(method, endpoint)
RecordHTTPRequestStart(method, endpoint) ==
    httpRequestsInFlight' = Inc(httpRequestsInFlight, <<method, endpoint>>)

\* RecordHTTPRequestEnd(method, endpoint)
RecordHTTPRequestEnd(method, endpoint) ==
    httpRequestsInFlight' = Dec(httpRequestsInFlight, <<method, endpoint>>)

\* RecordHTTPRequest(method, endpoint, statusCode, duration)
RecordHTTPRequest(method, endpoint, statusCode) ==
    /\ httpRequestsTotal' = Inc(httpRequestsTotal, <<<<method, endpoint>>, statusCode>>)
    /\ httpRequestDuration' = Inc(httpRequestDuration, <<method, endpoint>>)

\* the middleware's handler is called with a request: it records the start, wraps the
\* writer with status 200 and calls next.ServeHTTP
MetricsEnter(method, path) ==
    /\ OutsideMetrics
    /\ Len(requests) < MaxRequests
    /\ RecordHTTPRequestStart(method, path)
    /\ requests' = Append(requests, [pc |-> "serving", Method |-> method, Path |-> path,
                                     statusCode |-> 200])
    /\ UNCHANGED <<httpRequestsTotal, httpRequestDuration>>

\* next.ServeHTTP returns, having called WriteHeader(code) on the wrapped writer (or not
\* at all, which leaves 200)
HandlerReturns(q, code) ==
    /\ OutsideMetrics
    /\ q \in DOMAIN requests
    /\ requests[q].pc = "serving"
    /\ requests' = [requests EXCEPT ![q].pc = "returned", ![q].statusCode = code]
    /\ UNCHANGED <<httpRequestsInFlight, httpRequestsTotal, httpRequestDuration>>

\* next.ServeHTTP panics: the middleware has no deferred call and no recover, so the panic
\* leaves it at once and the rest of the handler does not run
HandlerPanics(q) ==
    /\ OutsideMetrics
    /\ q \in DOMAIN requests
    /\ requests[q].pc = "serving"
    /\ requests' = [requests EXCEPT ![q].pc = "panicked"]
    /\ UNCHANGED <<httpRequestsInFlight, httpRequestsTotal, httpRequestDuration>>

\* the rest of the handler, after next.ServeHTTP returned: it records the end and the
\* request
MetricsLeave(q) ==
    /\ OutsideMetrics
    /\ q \in DOMAIN requests
    /\ requests[q].pc = "returned"
    /\ RecordHTTPRequestEnd(requests[q].Method, requests[q].Path)
    /\ RecordHTTPRequest(requests[q].Method, requests[q].Path, requests[q].statusCode)
    /\ requests' = [requests EXCEPT ![q].pc = "done"]

NextMetrics ==
    \/ \E method \in Methods : \E path \in Paths : MetricsEnter(method, path)
    \/ \E q \in 1..MaxRequests : \E code \in Written : HandlerReturns(q, code)
    \/ \E q \in 1..MaxRequests : HandlerPanics(q)
    \/ \E q \in 1..MaxRequests : MetricsLeave(q)

\* the metrics middleware serves no request, for the specifications of the other components
MetricsUnused == InitMetrics

\* the sanitizer is not called, for the specifications of the other components
SanitizeUnused == InitSanitize({<<>>})

\* a handler that serves no request, for the specifications of the other components
RequestUnused == InitHandler /\ CorrelationUnused /\ SanitizeUnused /\ MetricsUnused

\* a health checker that is never used, for the specifications of the other components
HealthUnused == InitHealth(0)

\* a retry executor that is never called, for the specifications of the other components
RetryUnused ==
    InitRetry({[MaxAttempts |-> 1, InitialDelay |-> 10, MaxDelay |-> 30,
                BackoffFactor |-> <<2, 1>>, RetryableErrors |-> {500}, Jitter |-> FALSE]},
              {[i \in 1..MaxTries |-> NoError]})

\* a breaker that is never used, for the specifications of the other components
BreakerUnused == InitCB({[MaxFailures |-> 1, ResetTimeout |-> 0]}, {})

\* the variants of Retry and the backoff functions, not called
VariantsUnused == InitWithResult /\ WithBackoffUnused /\ BackoffUnused

\* ---------------------------------------------------------- specifications
\* the breaker, used by one caller
Init == InitCB(Configs, {"p1"}) /\ RetryUnused /\ VariantsUnused /\ HealthUnused /\ RequestUnused

Next == NextCB

Spec == Init /\ [][Next]_vars

\* the breaker, used by two callers at once: one calls Execute, the other
\* ExecuteWithResult, and the other operations are called beside them
RaceConfigs == {[MaxFailures |-> 1, ResetTimeout |-> 1]}

RaceInit ==
    /\ InitCB(RaceConfigs, Procs)
    /\ RetryUnused /\ VariantsUnused /\ HealthUnused /\ RequestUnused

RaceNext ==
    \/ Ready
    \/ ExecuteReady("p1", "Execute")
    \/ ExecuteReady("p2", "ExecuteWithResult")
    \/ \E p \in Procs : ExecuteRefuse(p)
    \/ \E p \in Procs : \E o \in AllOutcomes : ExecuteFn(p, o)
    \/ \E p \in Procs : ExecuteRecord(p)
    \/ ForceOpen
    \/ ForceClose
    \/ Reset
    \/ Tick

RaceSpec == RaceInit /\ [][RaceNext]_vars

\* the two callers on a breaker that ForceOpen is never called on
UnforcedNext ==
    \/ Ready
    \/ ExecuteReady("p1", "Execute")
    \/ ExecuteReady("p2", "ExecuteWithResult")
    \/ \E p \in Procs : ExecuteRefuse(p)
    \/ \E p \in Procs : \E o \in AllOutcomes : ExecuteFn(p, o)
    \/ \E p \in Procs : ExecuteRecord(p)
    \/ ForceClose
    \/ Reset
    \/ Tick

UnforcedSpec == RaceInit /\ [][UnforcedNext]_vars

\* the breaker with one caller, observed through its read-only accessors
ObserveConfigs == {[MaxFailures |-> 1, ResetTimeout |-> 1]}

ObserveInit ==
    /\ InitCB(ObserveConfigs, {"p1"})
    /\ RetryUnused /\ VariantsUnused /\ HealthUnused /\ RequestUnused

ObserveNext ==
    \/ NextCB
    \/ Accessors

ObserveSpec == ObserveInit /\ [][ObserveNext]_vars

\* one call of Retry
RetryInit == InitRetry(RetryConfigs, Scripts) /\ BreakerUnused /\ VariantsUnused /\ HealthUnused /\ RequestUnused

RetryNext == NextRetry

RetrySpec == RetryInit /\ [][RetryNext]_vars

\* the policies the variants are run side by side on
VariantConfigs ==
    [MaxAttempts : 0..MaxTries,
     InitialDelay : {10},
     MaxDelay : {30},
     BackoffFactor : {<<2, 1>>},
     RetryableErrors : {{500}},
     Jitter : BOOLEAN]

\* the context is cancelled while Retry and RetryWithResult stand at the same point
CancelWithResult ==
    /\ Cancel
    /\ wpc = rpc
    /\ winvocations = invocations

\* the context is cancelled while Retry and RetryWithBackoff stand at the same point
CancelWithBackoff ==
    /\ Cancel
    /\ bpc = rpc
    /\ binvocations = invocations

\* Retry and RetryWithResult, each called once on the same policy, operation and context
WithResultInit ==
    /\ InitRetry(VariantConfigs, Scripts) /\ InitWithResult
    /\ BreakerUnused /\ WithBackoffUnused /\ BackoffUnused /\ HealthUnused
    /\ RequestUnused

WithResultNext ==
    \/ RetryStart
    \/ RetryTop
    \/ RetryFnReturn
    \/ RetryTimer
    \/ RetryWaitCancelled
    \/ RetryWithResultStart
    \/ RetryWithResultTop
    \/ RetryWithResultFnReturn
    \/ RetryWithResultTimer
    \/ RetryWithResultWaitCancelled
    \/ CancelWithResult

WithResultSpec == WithResultInit /\ [][WithResultNext]_vars

\* Retry and RetryWithBackoff, each called once on the same policy, operation and context
WithBackoffInit ==
    /\ InitRetry(VariantConfigs, Scripts) /\ InitWithBackoff(BackoffFuncs)
    /\ BreakerUnused /\ InitWithResult /\ BackoffUnused /\ HealthUnused
    /\ RequestUnused

WithBackoffNext ==
    \/ RetryStart
    \/ RetryTop
    \/ RetryFnReturn
    \/ RetryTimer
    \/ RetryWaitCancelled
    \/ RetryWithBackoffStart
    \/ RetryWithBackoffTop
    \/ RetryWithBackoffFnReturn
    \/ RetryWithBackoffTimer
    \/ RetryWithBackoffWaitCancelled
    \/ CancelWithBackoff

WithBackoffSpec == WithBackoffInit /\ [][WithBackoffNext]_vars

\* the caller calls RetryWithResult once Retry has returned
ThenRetryWithResult ==
    /\ rpc = "done"
    /\ RetryWithResultStart

\* the caller calls RetryWithBackoff once RetryWithResult has returned
ThenRetryWithBackoff ==
    /\ wpc = "done"
    /\ RetryWithBackoffStart

\* the caller's context is cancelled after Retry has returned: between two calls, or
\* while RetryWithResult or RetryWithBackoff runs
CancelLater ==
    /\ OutsideRetry
    /\ ~cancelled
    /\ rpc = "done" /\ bpc # "done"
    /\ cancelled' = TRUE
    /\ cancelAt' = [pos |-> CASE wpc = "idle" -> "before RetryWithResult"
                               [] wpc # "done" -> "in RetryWithResult"
                               [] bpc = "idle" -> "before RetryWithBackoff"
                               [] OTHER -> "in RetryWithBackoff",
                     inv |-> invocations]
    /\ UNCHANGED <<rc, script, rpc, attempt, delay, nextDelay, lastErr, invocations,
                   returned, waits, rret>>

\* one caller calls Retry, RetryWithResult and RetryWithBackoff in turn, on the same
\* policy, operation and context
InTurnInit ==
    /\ InitRetry(VariantConfigs, Scripts) /\ InitWithResult /\ InitWithBackoff(BackoffFuncs)
    /\ BreakerUnused /\ BackoffUnused /\ HealthUnused
    /\ RequestUnused

InTurnNext ==
    \/ RetryStart
    \/ RetryTop
    \/ RetryFnReturn
    \/ RetryTimer
    \/ RetryWaitCancelled
    \/ Cancel
    \/ CancelLater
    \/ ThenRetryWithResult
    \/ RetryWithResultTop
    \/ RetryWithResultFnReturn
    \/ RetryWithResultTimer
    \/ RetryWithResultWaitCancelled
    \/ ThenRetryWithBackoff
    \/ RetryWithBackoffTop
    \/ RetryWithBackoffFnReturn
    \/ RetryWithBackoffTimer
    \/ RetryWithBackoffWaitCancelled

InTurnSpec == InTurnInit /\ [][InTurnNext]_vars

\* calls of the backoff functions
BackoffInit ==
    /\ InitBackoff(BackoffKinds, 0..MaxIndex, BaseDelays)
    /\ BreakerUnused /\ RetryUnused /\ InitWithResult /\ WithBackoffUnused /\ HealthUnused
    /\ RequestUnused

BackoffNext ==
    \/ CallBackoff
    \/ NextArguments

BackoffSpec == BackoffInit /\ [][BackoffNext]_vars

\* the health checker: checks are registered, then one pass of CheckHealth runs
HealthInit ==
    /\ InitHealth(0)
    /\ BreakerUnused /\ RetryUnused /\ VariantsUnused
    /\ RequestUnused

HealthNext == NextHealth

HealthSpec == HealthInit /\ [][HealthNext]_vars

\* the health checker with its registry also changed while the pass runs
LateBehaviours == {"healthy", "hang"}

HealthLateInit ==
    /\ InitHealth(MaxLate)
    /\ BreakerUnused /\ RetryUnused /\ VariantsUnused
    /\ RequestUnused

HealthLateNext ==
    \/ \E n \in Names : \E b \in LateBehaviours : AddCheck(n, b)
    \/ \E n \in Names : RemoveCheck(n)
    \/ \E t \in Timeouts : SetTimeout(t)
    \/ CheckHealthStart
    \/ DeadlineFires
    \/ ParentCancel
    \/ \E n \in Names : InnerReturns(n)
    \/ \E n \in Names : OuterReceive(n)
    \/ \E n \in Names : OuterTimeout(n)
    \/ HealthClose
    \/ Collect
    \/ HealthReturn

HealthLateSpec == HealthLateInit /\ [][HealthLateNext]_vars

\* the HTTP handler serving one request: the pass of CheckHealth it makes, then the
\* response
HandlerBehaviours == {"healthy", "degraded", "unhealthy", "other"}

HandlerInit == HealthInit

HandlerNext ==
    \/ \E n \in Names : \E b \in HandlerBehaviours : AddCheck(n, b)
    \/ \E n \in Names : RemoveCheck(n)
    \/ \E t \in Timeouts : SetTimeout(t)
    \/ CheckHealthStart
    \/ DeadlineFires
    \/ ParentCancel
    \/ \E n \in Names : InnerReturns(n)
    \/ \E n \in Names : OuterReceive(n)
    \/ \E n \in Names : OuterTimeout(n)
    \/ HealthClose
    \/ Collect
    \/ HealthReturn
    \/ HandlerRespond

HandlerSpec == HandlerInit /\ [][HandlerNext]_vars

\* calls of the correlation middleware, the setters and WithCorrelationContext
CorrelationInit ==
    /\ InitCorrelation /\ InitHandler /\ SanitizeUnused /\ MetricsUnused
    /\ BreakerUnused /\ RetryUnused /\ VariantsUnused /\ HealthUnused

CorrelationNext == NextCorrelation

CorrelationSpec == CorrelationInit /\ [][CorrelationNext]_vars

\* calls of SanitizeCorrelationID
SanitizeInit ==
    /\ InitSanitize(Identifiers) /\ InitHandler /\ CorrelationUnused /\ MetricsUnused
    /\ BreakerUnused /\ RetryUnused /\ VariantsUnused /\ HealthUnused

SanitizeNext == CallSanitize

SanitizeSpec == SanitizeInit /\ [][SanitizeNext]_vars

\* requests served through the metrics middleware, concurrently
MetricsInit ==
    /\ InitMetrics /\ InitHandler /\ CorrelationUnused /\ SanitizeUnused
    /\ BreakerUnused /\ RetryUnused /\ VariantsUnused /\ HealthUnused

MetricsNext == NextMetrics

MetricsSpec == MetricsInit /\ [][MetricsNext]_vars

\* for termination a check function either returns a record, returns nil or hangs
LiveBehaviours == {"healthy", "nil", "hang"}

HealthLiveInit == HealthInit

HealthLiveNext ==
    \/ \E n \in Names : \E b \in LiveBehaviours : AddCheck(n, b)
    \/ \E n \in Names : RemoveCheck(n)
    \/ \E t \in Timeouts : SetTimeout(t)
    \/ CheckHealthStart
    \/ DeadlineFires
    \/ ParentCancel
    \/ \E n \in Names : InnerReturns(n)
    \/ \E n \in Names : OuterReceive(n)
    \/ \E n \in Names : OuterTimeout(n)
    \/ HealthClose
    \/ Collect
    \/ HealthReturn

\* a step of the pass itself: its timer, its selecting goroutines, its closer, its loop
PassStep ==
    \/ DeadlineFires
    \/ \E n \in Names : OuterReceive(n) \/ OuterTimeout(n)
    \/ HealthClose
    \/ Collect
    \/ HealthReturn

\* the same, with the timer and the goroutines of the pass not all held up for ever
\* while one of them can take a step; nothing is assumed of the check functions, of
\* the callers of the registry or of the caller's context
HealthLiveSpec == HealthLiveInit /\ [][HealthLiveNext]_vars /\ WF_vars(PassStep)

\* check functions that return a record, never return, or panic
PanicBehaviours == {"healthy", "hang", "panic"}

HealthPanicInit == HealthInit

HealthPanicNext ==
    \/ \E n \in Names : \E b \in PanicBehaviours : AddCheck(n, b)
    \/ \E n \in Names : RemoveCheck(n)
    \/ \E t \in Timeouts : SetTimeout(t)
    \/ CheckHealthStart
    \/ DeadlineFires
    \/ ParentCancel
    \/ \E n \in Names : InnerReturns(n)
    \/ \E n \in Names : InnerPanics(n)
    \/ \E n \in Names : OuterReceive(n)
    \/ \E n \in Names : OuterTimeout(n)
    \/ HealthClose
    \/ Collect
    \/ HealthReturn

\* the pass with check functions that may panic, under the same scheduling as
\* HealthLiveSpec
HealthPanicSpec == HealthPanicInit /\ [][HealthPanicNext]_vars /\ WF_vars(PassStep)

\* one call of Retry by a goroutine that is scheduled whenever it can leave its wait on
\* ctx.Done() or run the top of its loop; nothing is assumed of the timer
RetryLiveSpec == RetrySpec /\ WF_vars(RetryWaitCancelled \/ RetryTop)

\* ------------------------------------------------------ breaker: the claims
States == {StateClosed, StateOpen, StateHalfOpen}

\* any call of Ready(): direct, or as the first statement of Execute / ExecuteWithResult
ReadyStep ==
    \/ Ready
    \/ \E p \in Procs : \E op \in {"Execute", "ExecuteWithResult"} : ExecuteReady(p, op)

IsBreakerOpenError(e) == e \in {BreakerOpenError(s) : s \in States}

\* C1 as stated: on a breaker that started fresh (CLOSED, no override since), a
\* Ready() made after exactly MaxFailures consecutive failures returns false, and
\* one made after MaxFailures - 1 consecutive failures returns true.
C1_ReadyAfterNFailures ==
    [][(ReadyStep /\ clean) =>
          /\ (streak = config.MaxFailures => ~lastReady')
          /\ (streak = config.MaxFailures - 1 => lastReady')]_vars

\* C1 amended: after exactly MaxFailures consecutive failures a Ready() made while
\* less than ResetTimeout has elapsed since the last of them returns false; after
\* MaxFailures - 1 consecutive failures Ready() returns true.
C1_ReadyAfterNFailuresInTime ==
    [][(ReadyStep /\ clean) =>
          /\ (streak = config.MaxFailures /\ now - lastFailAt < config.ResetTimeout
                => ~lastReady')
          /\ (streak = config.MaxFailures - 1 => lastReady')]_vars

\* C1 witness: Ready() has just refused right after the second of two failures, threshold 2.
C1_Witness ==
    /\ lastOp.op = "Ready" /\ prevOp = "recordFailure"
    /\ clean /\ config.MaxFailures = 2 /\ streak = 2
    /\ ~lastReady /\ state = StateOpen

C3_HalfOpenFailureReopens ==
    (lastOp = [op |-> "recordFailure", from |-> StateHalfOpen]) => state = StateOpen

\* C4: a success recorded while the breaker is HALF_OPEN leaves it CLOSED with
\* failure count 0 and no last error.
C4_HalfOpenSuccessCloses ==
    (lastOp = [op |-> "recordSuccess", from |-> StateHalfOpen]) =>
        (state = StateClosed /\ failures = 0 /\ lastError = Nil)

\* C4 witness: a success has just been recorded on a HALF_OPEN breaker that had tripped.
C4_Witness ==
    /\ lastOp = [op |-> "recordSuccess", from |-> StateHalfOpen]
    /\ lastFailAt # ZeroTime
    /\ state = StateClosed

\* C5: when the Ready() of Execute / ExecuteWithResult returns false the call goes
\* to its refusal without touching state, failure count, last error or last-failure
\* timestamp, and the refusal returns a nil result and a breaker-open error, having
\* invoked fn and recordResult zero times and again touching none of the fields.
C5_RefusalLeavesBreakerAlone ==
    [][\A p \in Procs :
          /\ ((\E op \in {"Execute", "ExecuteWithResult"} : ExecuteReady(p, op)) /\ ~lastReady'
                => /\ pc'[p] = "refused"
                   /\ UNCHANGED <<state, failures, lastError, lastFailure>>)
          /\ (ExecuteRefuse(p)
                => /\ ret'[p][1] = Nil /\ IsBreakerOpenError(ret'[p][2])
                   /\ calls'[p] = 0 /\ records'[p] = 0
                   /\ UNCHANGED <<state, failures, lastError, lastFailure>>)]_vars

\* C5 witness: a caller was refused on a breaker that holds a failure count and a last error.
C5_Witness ==
    \E p \in Procs :
        /\ pc[p] = "idle" /\ IsBreakerOpenError(ret[p][2])
        /\ calls[p] = 0 /\ state = StateOpen /\ failures > 0 /\ lastError # Nil

\* C6: when the Ready() of Execute / ExecuteWithResult returns true the call goes on
\* to invoke fn; when it returns it has invoked fn once and recordResult once, and
\* what it returns is exactly the <<result, err>> that fn returned.
C6_ExecutePassesOutcomeThrough ==
    [][\A p \in Procs :
          /\ ((\E op \in {"Execute", "ExecuteWithResult"} : ExecuteReady(p, op)) /\ lastReady'
                => pc'[p] \in {"Execute", "ExecuteWithResult"} /\ calls'[p] = 0)
          /\ (ExecuteRecord(p)
                => /\ ret'[p] = outcome[p]
                   /\ calls'[p] = 1 /\ records'[p] = 1)]_vars

\* C6 witness: an ExecuteWithResult returned fn's result and error, and that error tripped the breaker.
C6_Witness ==
    \E p \in Procs :
        /\ pc[p] = "idle" /\ ret[p] = <<"v", "e2">>
        /\ calls[p] = 1 /\ records[p] = 1
        /\ lastOp = [op |-> "recordFailure", from |-> StateClosed]
        /\ state = StateOpen

\* C7 as stated: ForceOpen leaves the breaker OPEN, and the Ready() that follows it
\* returns false.
C7_ForceOpenThenNotReady ==
    /\ (lastOp.op = "ForceOpen" => state = StateOpen)
    /\ (lastOp.op = "Ready" /\ prevOp = "ForceOpen" => ~lastReady)

\* C7 amended: ForceOpen leaves the breaker OPEN, and the Ready() that follows it
\* returns false when it is made while less than ResetTimeout has elapsed since
\* the ForceOpen.
C7_ForceOpenThenNotReadyInTime ==
    [][/\ (ForceOpen => state' = StateOpen)
       /\ (lastOp.op = "ForceOpen" /\ ReadyStep /\ now - lastOpAt < config.ResetTimeout
             => ~lastReady' /\ state' = StateOpen)]_vars

\* C7 witness: ForceOpen ran on a breaker with no failures, and the Ready() after it
\* found the breaker OPEN and refused.
C7_Witness ==
    /\ lastOp = [op |-> "Ready", from |-> StateOpen] /\ prevOp = "ForceOpen"
    /\ ~lastReady /\ state = StateOpen /\ failures = 0

\* C8: ForceClose and Reset leave the breaker CLOSED with failure count 0 and no
\* last error, and the Ready() that follows either returns true.
C8_ForceCloseResetReady ==
    /\ (lastOp.op \in {"ForceClose", "Reset"} =>
            (state = StateClosed /\ failures = 0 /\ lastError = Nil))
    /\ (lastOp.op = "Ready" /\ prevOp \in {"ForceClose", "Reset"} => lastReady)

\* C8 witness: a breaker that held failures was force-closed and the Ready() after it returned true.
C8_Witness ==
    /\ lastOp.op = "Ready" /\ prevOp = "ForceClose"
    /\ lastFailAt # ZeroTime /\ lastReady
    /\ state = StateClosed /\ failures = 0

\* -------------------------------------------------------- retry: the claims
\* the operation fails with retryable errors on its first k invocations and then succeeds
FailsThenSucceeds(k) ==
    /\ \A i \in 1..k : IsRetryableError(rc, script[i])
    /\ script[k + 1] = NoError

\* each of the first MaxAttempts invocations of the operation fails with a retryable error
AlwaysFailsRetryably == \A i \in 1..rc.MaxAttempts : IsRetryableError(rc, script[i])

\* C9: at most one invocation of fn is in progress at any time, each begun after the
\* one before returned; and when the operation fails retryably on its first k
\* invocations (k < MaxAttempts) and then succeeds and the context is not cancelled,
\* a finished Retry has invoked it exactly k+1 times and returned nil.
C9_RetryUntilSuccess ==
    /\ invocations - returned = (IF rpc = "call" THEN 1 ELSE 0)
    /\ \A k \in 0..(rc.MaxAttempts - 1) :
          (rpc = "done" /\ ~cancelled /\ FailsThenSucceeds(k)) =>
              /\ invocations = k + 1
              /\ returned = k + 1
              /\ rret = Returned(NoError)

\* C9 witness: MaxAttempts = 3, the operation failed twice retryably and then
\* succeeded, and Retry has returned after its third invocation.
C9_Witness ==
    /\ rpc = "done" /\ ~cancelled /\ rc.MaxAttempts = 3
    /\ FailsThenSucceeds(2)
    /\ invocations = 3 /\ rret = Returned(NoError)

\* C10: when each of the MaxAttempts (>= 1) invocations fails with a retryable error
\* and the context is not cancelled, a finished Retry has invoked the operation
\* exactly MaxAttempts times, has waited MaxAttempts - 1 times, every wait before the
\* last invocation, and has returned the attempts-exceeded error that states
\* MaxAttempts and wraps the error of the last invocation.
C10_RetryExhausted ==
    (rpc = "done" /\ ~cancelled /\ rc.MaxAttempts >= 1 /\ AlwaysFailsRetryably) =>
        /\ invocations = rc.MaxAttempts
        /\ Len(waits) = rc.MaxAttempts - 1
        /\ \A w \in 1..Len(waits) : waits[w].after = w
        /\ rret = AttemptsExceeded(rc.MaxAttempts, script[rc.MaxAttempts])

\* C10 witness: MaxAttempts = 3, three retryable failures, two waits, the exceeded error returned.
C10_Witness ==
    /\ rpc = "done" /\ ~cancelled /\ rc.MaxAttempts = 3
    /\ AlwaysFailsRetryably
    /\ invocations = 3 /\ Len(waits) = 2
    /\ rret.exceeded /\ rret.n = 3 /\ rret.err = [shape |-> "ptr", code |-> 500]

\* every invocation of the operation fails with an error the policy does not retry
AlwaysFailsNonRetryably ==
    \A i \in 1..MaxTries : script[i] # NoError /\ ~IsRetryableError(rc, script[i])

\* the operation has failed with an error the policy does not retry
FailedNonRetryably == lastErr # NoError /\ ~IsRetryableError(rc, lastErr)

\* C11 as stated: once the operation has returned a non-retryable error Retry has
\* finished, with no wait after that invocation; and when every invocation fails
\* with a non-retryable error and the context is not cancelled, a finished Retry
\* has invoked the operation exactly once and never waited, whatever MaxAttempts is.
C11_NonRetryableOnce ==
    /\ FailedNonRetryably => (rpc = "done" /\ Len(waits) = invocations - 1)
    /\ (rpc = "done" /\ ~cancelled /\ AlwaysFailsNonRetryably) =>
           (invocations = 1 /\ waits = <<>>)

\* C11 amended: the same, for every MaxAttempts >= 1.
C11_NonRetryableOnceWithBudget ==
    /\ FailedNonRetryably => (rpc = "done" /\ Len(waits) = invocations - 1)
    /\ (rpc = "done" /\ ~cancelled /\ rc.MaxAttempts >= 1 /\ AlwaysFailsNonRetryably) =>
           (invocations = 1 /\ waits = <<>>)

\* C11 witness: MaxAttempts = 3, the first invocation failed with a status code
\* outside the policy's set, and Retry has returned after that one invocation.
C11_Witness ==
    /\ rpc = "done" /\ ~cancelled /\ rc.MaxAttempts = 3
    /\ AlwaysFailsNonRetryably /\ script[1] = [shape |-> "ptr", code |-> 400]
    /\ invocations = 1 /\ waits = <<>> /\ rret = Returned(script[1])

\* C12 as stated: when an attempt has failed with a non-retryable error, what Retry
\* returns is that very error, on whichever attempt it occurred.
C12_NonRetryableReturnedAsIs ==
    (rpc = "done" /\ FailedNonRetryably) => rret = Returned(lastErr)

\* the context was cancelled before RetryWithResult was called
CancelledBeforeWithResult ==
    /\ cancelled
    /\ cancelAt.pos \notin {"in RetryWithResult", "before RetryWithBackoff", "in RetryWithBackoff"}

\* the context was cancelled before RetryWithBackoff was called
CancelledBeforeWithBackoff ==
    /\ cancelled
    /\ cancelAt.pos # "in RetryWithBackoff"

\* C13 as stated: a Retry, a RetryWithResult and a RetryWithBackoff that were called
\* with the context already cancelled have, once returned, invoked the operation 0
\* times and returned the context's error (RetryWithResult with a nil result).
C13_PreCancelled ==
    /\ (cancelAt.pos = "idle" /\ rpc = "done") =>
           (invocations = 0 /\ rret = Returned(CtxErr))
    /\ (CancelledBeforeWithResult /\ wpc = "done") =>
           (winvocations = 0 /\ wret = WithResult(NilResult, Returned(CtxErr)))
    /\ (CancelledBeforeWithBackoff /\ bpc = "done") =>
           (binvocations = 0 /\ bret = Returned(CtxErr))

\* C13 amended: the same, for every policy with MaxAttempts >= 1.
C13_PreCancelledWithBudget ==
    rc.MaxAttempts >= 1 =>
        /\ (cancelAt.pos = "idle" /\ rpc = "done") =>
               (invocations = 0 /\ rret = Returned(CtxErr))
        /\ (CancelledBeforeWithResult /\ wpc = "done") =>
               (winvocations = 0 /\ wret = WithResult(NilResult, Returned(CtxErr)))
        /\ (CancelledBeforeWithBackoff /\ bpc = "done") =>
               (binvocations = 0 /\ bret = Returned(CtxErr))

\* C13 witness: the context was cancelled before Retry was called, the policy allows
\* three attempts of an operation that would succeed, and all three calls have
\* returned the context's error without invoking it.
C13_Witness ==
    /\ cancelAt.pos = "idle" /\ rc.MaxAttempts = 3 /\ script[1] = NoError
    /\ rpc = "done" /\ wpc = "done" /\ bpc = "done"
    /\ invocations = 0 /\ winvocations = 0 /\ binvocations = 0
    /\ rret = Returned(CtxErr) /\ wret.err = Returned(CtxErr) /\ bret = Returned(CtxErr)

\* C14: when the context is cancelled while Retry waits out a delay, the operation is
\* never invoked again and what Retry returns is the context's error; and Retry
\* does return, whether or not the timer of the delay ever fires.
C14_CancelDuringWait ==
    /\ [](cancelAt.pos = "wait" =>
            /\ invocations = cancelAt.inv
            /\ (rpc = "done" => rret = Returned(CtxErr)))
    /\ ((cancelAt.pos = "wait") ~> (rpc = "done"))

\* C14 witness: the context was cancelled during the wait after the first of three
\* attempts, and Retry has returned the context's error after that one invocation.
C14_Witness ==
    /\ cancelAt = [pos |-> "wait", inv |-> 1] /\ rc.MaxAttempts = 3
    /\ rpc = "done" /\ rret = Returned(CtxErr) /\ invocations = 1

\* err is a RetryableError, held by pointer or by value
IsARetryableError(err) == err.shape \in {"ptr", "val"}

\* C15 as stated: an error returned by the operation is classified retryable exactly
\* when it is a RetryableError whose status code is in the policy's RetryableErrors.
C15_RetryableIffCodeInSet ==
    (lastErr # NoError) =>
        (IsRetryableError(rc, lastErr) <=>
            (IsARetryableError(lastErr) /\ lastErr.code \in rc.RetryableErrors))

\* C16: when Retry and RetryWithResult have both returned, having run on the same
\* policy and operation with the context cancelled (if at all) at the same point,
\* they have made the same number of invocations, waited after the same invocations
\* (for the same durations when the policy has no jitter) and returned the same
\* error; RetryWithResult's result is the result of its last invocation when it
\* returns no error, and nil whenever it returns an error.
C16_WithResultSameControlFlow ==
    (rpc = "done" /\ wpc = "done") =>
        /\ winvocations = invocations
        /\ Len(wwaits) = Len(waits)
        /\ \A w \in 1..Len(waits) : wwaits[w].after = waits[w].after
        /\ ~rc.Jitter => wwaits = waits
        /\ wret.err = rret
        /\ wret.res = (IF wret.err = Returned(NoError)
                       THEN ResultOf(winvocations)
                       ELSE NilResult)

\* C16 witness: three attempts, two retryable failures and a non-retryable one; both
\* have returned the exceeded error after three invocations and two waits, and
\* RetryWithResult a nil result.
C16_Witness ==
    /\ rpc = "done" /\ wpc = "done" /\ ~cancelled /\ rc.MaxAttempts = 3
    /\ invocations = 3 /\ winvocations = 3 /\ Len(waits) = 2 /\ Len(wwaits) = 2
    /\ script[3] = [shape |-> "other", code |-> 0]
    /\ rret.exceeded /\ wret.err = rret /\ wret.res = NilResult

\* the smaller of two durations
Least(a, b) == IF a < b THEN a ELSE b

\* C17: every wait of RetryWithBackoff follows a failed attempt that was not the last
\* one and whose error is retryable, and the wait after the attempt with index i
\* lasts min(backoffFunc(i), MaxDelay); and when Retry and RetryWithBackoff have both
\* returned, having run on the same policy and operation with the context cancelled
\* (if at all) at the same point, they have made the same number of invocations and
\* of waits and returned the same error.
C17_WithBackoffCustomDelay ==
    /\ \A w \in 1..Len(bwaits) :
          /\ bwaits[w].after = w
          /\ w - 1 < rc.MaxAttempts - 1
          /\ IsRetryableError(rc, script[w])
          /\ bwaits[w].d = Least(BackoffValue(backoffFunc.kind, w - 1, backoffFunc.base),
                                 rc.MaxDelay)
    /\ (rpc = "done" /\ bpc = "done") =>
          /\ binvocations = invocations
          /\ Len(bwaits) = Len(waits)
          /\ bret = rret

\* C17 witness: the exponential function with base 20, three attempts that all fail
\* retryably: RetryWithBackoff waited 20 and then 30 (40 clamped to MaxDelay) and
\* returned, as Retry did, the exceeded error.
C17_Witness ==
    /\ rpc = "done" /\ bpc = "done" /\ ~cancelled /\ rc.MaxAttempts = 3
    /\ backoffFunc = [kind |-> "Exponential", base |-> 20]
    /\ bwaits = <<[after |-> 1, d |-> 20], [after |-> 2, d |-> 30]>>
    /\ binvocations = 3 /\ bret.exceeded /\ bret = rret

RECURSIVE F(_)
\* the Fibonacci numbers of the claim: F(0) = F(1) = 1, F(n) = F(n-1) + F(n-2)
F(n) == IF n <= 1 THEN 1 ELSE F(n - 1) + F(n - 2)

\* C18: a call FibonacciBackoff(attempt, base) with attempt >= 0 returns
\* base * F(attempt); for attempts 0..5 that is base times 1, 1, 2, 3, 5, 8.
C18_FibonacciBackoff ==
    /\ (fnKind = "Fibonacci" /\ fnOut # NoDuration) => fnOut = fnBase * F(fnAttempt)
    /\ \A a \in 0..5 : FibonacciBackoff(a, 100) = 100 * <<1, 1, 2, 3, 5, 8>>[a + 1]

\* C18 witness: FibonacciBackoff(5, 100) was called and returned 800.
C18_Witness ==
    fnKind = "Fibonacci" /\ fnAttempt = 5 /\ fnBase = 100 /\ fnOut = 800

\* ------------------------------------------------- health checker: the claims
\* the worst of the statuses of a set of dependency records
WorstOf(dependencies) ==
    IF \E n \in DOMAIN dependencies : dependencies[n].status = StatusUnhealthy
    THEN StatusUnhealthy
    ELSE IF \E n \in DOMAIN dependencies : dependencies[n].status = StatusDegraded
    THEN StatusDegraded
    ELSE StatusHealthy

\* C19: the overall status CheckHealth holds is the worst of the statuses of the
\* records it has collected so far, and the status of the snapshot it returns is
\* the worst of the statuses of the snapshot's dependency records: UNHEALTHY if any
\* is UNHEALTHY, otherwise DEGRADED if any is DEGRADED, otherwise HEALTHY, and
\* HEALTHY when no check is registered; the order of arrival plays no part.
C19_OverallIsWorst ==
    /\ overall = WorstOf(deps)
    /\ hpc = "returned" =>
          /\ snapshot.status = WorstOf(snapshot.dependencies)
          /\ (DOMAIN snap = {} => snapshot.status = StatusHealthy)

\* C19 witness: a pass over one DEGRADED and one UNHEALTHY check, both delivered by
\* the checks themselves, has returned an UNHEALTHY snapshot.
C19_Witness ==
    /\ hpc = "returned" /\ snapshot.status = StatusUnhealthy
    /\ \E n, m \in DOMAIN snapshot.dependencies :
          /\ snapshot.dependencies[n] = [name |-> n, status |-> StatusDegraded, message |-> "own"]
          /\ snapshot.dependencies[m] = [name |-> m, status |-> StatusUnhealthy, message |-> "own"]

\* the record made for a check registered as name whose function returned nil
NilRecord(name) ==
    [name |-> name, status |-> StatusUnhealthy, message |-> "Health check returned nil"]

\* C22: the aggregation is never ended by a nil result; in a returned snapshot a check
\* whose function returns nil has an UNHEALTHY record under its registered name with
\* an explanatory message (that of a nil result when the result was received, else
\* that of a timeout), and the overall status is UNHEALTHY.
C22_NilResultIsUnhealthy ==
    /\ hpc # "crashed"
    /\ hpc = "returned" =>
          \A n \in DOMAIN snap :
              snap[n] = "nil" =>
                  /\ snapshot.dependencies[n] \in {NilRecord(n), TimeoutRecord(n)}
                  /\ (inner[n] = "taken" => snapshot.dependencies[n] = NilRecord(n))
                  /\ snapshot.status = StatusUnhealthy

\* C22 witness: a pass has returned with the nil-result record for one check, next
\* to the own record of a healthy check, and the overall status is UNHEALTHY.
C22_Witness ==
    /\ hpc = "returned" /\ snapshot.status = StatusUnhealthy
    /\ \E n, m \in DOMAIN snap :
          /\ snap[n] = "nil" /\ snapshot.dependencies[n] = NilRecord(n)
          /\ snap[m] = "healthy" /\ snapshot.dependencies[m].message = "own"

\* the three defined statuses
DefinedStatuses == {StatusHealthy, StatusDegraded, StatusUnhealthy}

C24_HandlerStatusCode ==
    httpStatus # NoResponse =>
        /\ httpStatus \in {StatusOK, StatusServiceUnavailable}
        /\ httpStatus = StatusOK <=> snapshot.status \in {StatusHealthy, StatusDegraded}
        /\ httpStatus = StatusServiceUnavailable <=> snapshot.status = StatusUnhealthy

\* C24 witness: the handler answered 200 for a pass in which one check returned a
\* status string of its own and another returned DEGRADED.
C24_Witness ==
    /\ httpStatus = StatusOK /\ snapshot.status = StatusDegraded
    /\ \E n, m \in DOMAIN snap :
          /\ snapshot.dependencies[n].status = "unknown"
          /\ snapshot.dependencies[m].status = StatusDegraded

\* the last call was one of the two middlewares
MiddlewareCalled == lastCall.op \in {"CorrelationMiddleware", "GinCorrelationMiddleware"}

\* the identifiers held by the contexts allocated before the last call
KnownBefore ==
    UNION {{lastCall.heap[a].CorrelationID, lastCall.heap[a].RequestID,
            lastCall.heap[a].TraceID, lastCall.heap[a].SpanID} : a \in DOMAIN lastCall.heap}

\* C25: the correlation ID of the context a middleware attached is the request's
\* X-Correlation-ID when that is non-empty, else its X-Request-ID when non-empty (and
\* then equal to the context's request ID), else its X-Trace-ID when non-empty, else
\* an identifier that is non-empty and new: no header of the request, not the request
\* ID generated beside it, and in no context made before.
C25_CorrelationIDPriority ==
    MiddlewareCalled =>
        LET h == lastCall.headers
            id == GetCorrelationID(lastCall.to)
        IN  /\ h.corr # "" => id = h.corr
            /\ (h.corr = "" /\ h.req # "") =>
                  (id = h.req /\ id = GetRequestID(lastCall.to))
            /\ (h.corr = "" /\ h.req = "" /\ h.trace # "") => id = h.trace
            /\ (h.corr = "" /\ h.req = "" /\ h.trace = "") =>
                  /\ id \notin {"", h.span, GetRequestID(lastCall.to)}
                  /\ id \notin KnownBefore

\* C25 witness: a request carrying X-Request-ID and X-Trace-ID but no
\* X-Correlation-ID went through the Gin middleware and got the request ID as its
\* correlation ID.
C25_Witness ==
    /\ lastCall.op = "GinCorrelationMiddleware"
    /\ lastCall.headers = [corr |-> "", req |-> "r-1", trace |-> "t-1", span |-> ""]
    /\ GetCorrelationID(lastCall.to) = "r-1"

\* the last call was one of the two setters
SetterCalled == lastCall.op \in {"SetUserID", "SetSessionID"}

\* what GetUserID and GetSessionID returned for the scope the last call was given,
\* before that call
UserIDBefore ==
    IF scopes[lastCall.from] # NilPointer
    THEN lastCall.heap[scopes[lastCall.from]].UserID
    ELSE ""
SessionIDBefore ==
    IF scopes[lastCall.from] # NilPointer
    THEN lastCall.heap[scopes[lastCall.from]].SessionID
    ELSE ""

\* C26 as stated: a setter called on a scope with an attached context returns a new
\* scope whose context has the field set to the argument, and the originating scope
\* reads the same UserID and SessionID after the call as before it; called on a
\* scope without a context it returns that very scope and changes nothing.
C26_SettersLeaveOriginAlone ==
    SetterCalled =>
        IF GetCorrelationContext(lastCall.from) # NilPointer
        THEN /\ lastCall.to # lastCall.from
             /\ lastCall.op = "SetUserID" => GetUserID(lastCall.to) = lastCall.arg
             /\ lastCall.op = "SetSessionID" => GetSessionID(lastCall.to) = lastCall.arg
             /\ GetUserID(lastCall.from) = UserIDBefore
             /\ GetSessionID(lastCall.from) = SessionIDBefore
        ELSE /\ lastCall.to = lastCall.from
             /\ heap = lastCall.heap

\* C28 as stated: every scope with an attached context, whichever of the two
\* middlewares or WithCorrelationContext attached it, has a non-empty correlation ID.
C28_CorrelationIDNonEmpty ==
    \A ctx \in DOMAIN scopes :
        GetCorrelationContext(ctx) # NilPointer => GetCorrelationID(ctx) # ""

\* the code points of A-Z, a-z, 0-9, '_' and '-'
SafeCharacters == (65..90) \cup (97..122) \cup (48..57) \cup {95, 45}

\* the output ends with the truncation marker; the output without the marker
HasMarker ==
    /\ Len(sanOut) >= Len(Ellipsis)
    /\ SubSeq(sanOut, Len(sanOut) - Len(Ellipsis) + 1, Len(sanOut)) = Ellipsis
Content == IF HasMarker THEN SubSeq(sanOut, 1, Len(sanOut) - Len(Ellipsis)) ELSE sanOut

\* C27 as stated: what the sanitizer returns is at most 64 characters of content, all
\* of them letters, digits, '_' or '-', followed by the truncation marker exactly when
\* something was cut off (never for an input of at most 64 characters, always for an
\* input with more than 64 characters to keep); '@', '#' and '$' occur nowhere in it.
C27_SanitizedIsSafe ==
    sanOut # NoOutput =>
        /\ Len(Content) <= TruncateAt
        /\ \A i \in DOMAIN Content : Content[i] \in SafeCharacters
        /\ HasMarker => Len(sanIn) > TruncateAt
        /\ Cardinality({i \in DOMAIN sanIn : sanIn[i] \in SafeCharacters}) > TruncateAt
              => HasMarker
        /\ \A i \in DOMAIN sanOut : sanOut[i] \notin {64, 35, 36}

\* C29 as stated: no public operation of the breaker reads or writes one of its
\* mutable fields (state, failure count, last error, last-failure time) without
\* holding cb.mutex, the construction of the breaker-open error included.
C29_AllAccessUnderMutex == unlocked = {}

\* caller p has passed "if !cb.Ready()" with true and has not yet called fn
Admitted(p) == p \in callers /\ pc[p] \in {"Execute", "ExecuteWithResult"}
\* caller p has called fn in its current Execute and has not yet recorded the outcome
Invoked(p) == p \in callers /\ pc[p] = "record" /\ calls[p] = 1 /\ records[p] = 0

\* C30: single-flight is not guaranteed. Nothing between Ready() and fn looks at the
\* breaker again: a caller that Ready() has admitted can invoke its operation in
\* every state the breaker is then in (CLOSED, HALF_OPEN or OPEN) and however many
\* other callers are admitted or running; so wherever two callers are admitted, both
\* can invoke.
C30_AdmittedAlwaysInvokes ==
    \A p \in Procs : Admitted(p) => ENABLED (\E o \in AllOutcomes : ExecuteFn(p, o))

\* C30 witness: the breaker is HALF_OPEN, the last critical section was a Ready()
\* that returned true, and the two callers have both invoked their operations and
\* neither has recorded its outcome yet.
C30_Witness ==
    /\ state = StateHalfOpen
    /\ lastOp.op = "Ready" /\ lastReady
    /\ \A p \in Procs : Invoked(p)

\* a caller was admitted, the failure another caller recorded has then tripped the
\* breaker, and the admitted caller has still to invoke its operation
C30_AdmittedBeforeTrip ==
    /\ state = StateOpen
    /\ lastOp = [op |-> "recordFailure", from |-> StateClosed]
    /\ \E p \in Procs : Admitted(p)

\* C31: in every state, under every interleaving of the callers, the failure count
\* is the number of failure outcomes recorded since the most recent recorded
\* success, ForceClose or Reset (or since creation), and it is never negative.
C31_FailuresAreConsecutive ==
    /\ failures = streak
    /\ failures >= 0

\* C31 witness: two callers were admitted together and both failed: the second
\* failure is counted too, recorded after the first has tripped the breaker.
C31_Witness ==
    /\ failures = 2 /\ streak = 2
    /\ lastOp = [op |-> "recordFailure", from |-> StateOpen]
    /\ \A p \in Procs : records[p] = 1 /\ ret[p][2] # Nil

\* C32: the OPEN -> HALF_OPEN transition is lazy. A step that takes the breaker
\* from OPEN to HALF_OPEN is a Ready() (direct or inside Execute/ExecuteWithResult)
\* that found ResetTimeout elapsed; the passage of time and the accessors GetState,
\* GetFailures, GetLastError, GetLastFailure and GetStats change no field; GetState
\* returns the state as it is, and GetStats reports that state together with
\* ready = what Ready() would return.
C32_LazyHalfOpen ==
    [][/\ (state = StateOpen /\ state' = StateHalfOpen) =>
             /\ lastOp' = [op |-> "Ready", from |-> StateOpen]
             /\ Since(lastFailure) >= config.ResetTimeout
       /\ (now' # now \/ got' # NotGot) =>
             UNCHANGED <<config, state, failures, lastError, lastFailure>>
       /\ got'.op = "GetState" => got'.val = state
       /\ got'.op = "GetFailures" => got'.val = failures
       /\ got'.op = "GetLastError" => got'.val = lastError
       /\ got'.op = "GetLastFailure" => got'.val = lastFailure
       /\ got'.op = "GetStats" =>
             /\ got'.val.state = String(state)
             /\ got'.val.ready = (ReadyState # StateOpen)]_vars

\* C32 witness: ResetTimeout has elapsed since the failure that tripped the breaker,
\* GetState has just returned OPEN, and GetStats would report ready = true.
C32_Witness ==
    /\ got = [op |-> "GetState", val |-> StateOpen]
    /\ lastOp.op = "recordFailure"
    /\ now - lastFailure >= config.ResetTimeout
    /\ StatsReady

\* C33 as stated: on a breaker that ForceOpen has not been used on, whenever the
\* state is OPEN the failure count is at least MaxFailures, also when outcomes of
\* operations admitted before the trip are recorded after it.
C33_OpenMeansThresholdReached ==
    state = StateOpen => failures >= config.MaxFailures

\* min(previous wait * BackoffFactor, MaxDelay), in whole clock units
ClampedNext(previous) ==
    LET scaled == CHOOSE x \in 0..(previous * rc.BackoffFactor[1]) :
                      /\ x * rc.BackoffFactor[2] <= previous * rc.BackoffFactor[1]
                      /\ (x + 1) * rc.BackoffFactor[2] > previous * rc.BackoffFactor[1]
    IN  IF scaled < rc.MaxDelay THEN scaled ELSE rc.MaxDelay

\* C34: the waits of one Retry call: the first is InitialDelay; with jitter disabled
\* each later wait is min(previous wait * BackoffFactor, MaxDelay); with jitter
\* enabled each later wait is at least that value and exceeds it by at most 10%.
C34_DelayProgression ==
    /\ waits # <<>> => waits[1].d = rc.InitialDelay
    /\ \A i \in 1..(Len(waits) - 1) :
          LET clamped == ClampedNext(waits[i].d) IN
          IF rc.Jitter
          THEN /\ waits[i + 1].d >= clamped
               /\ 10 * (waits[i + 1].d - clamped) <= clamped
          ELSE waits[i + 1].d = clamped

\* C34 witness: jitter is enabled, the second wait has begun, it is longer than the
\* clamped value, and the first wait, InitialDelay, was longer than MaxDelay.
C34_Witness ==
    /\ rc.Jitter
    /\ Len(waits) = 2
    /\ waits[1].d > rc.MaxDelay
    /\ waits[2].d > rc.MaxDelay

\* C35: a finished Retry has returned nil exactly when its final invocation of the
\* operation returned nil; no invocation follows one that returned nil; and the
\* operation is invoked at most MaxAttempts times (never, when MaxAttempts <= 0).
C35_NilIffLastInvocationNil ==
    /\ rpc = "done" =>
          (rret = Returned(NoError) <=> (returned >= 1 /\ OpResult(returned) = NoError))
    /\ \A i \in 1..(invocations - 1) : OpResult(i) # NoError
    /\ invocations <= rc.MaxAttempts
    /\ returned <= invocations

\* C35 witness: MaxAttempts = 0 and an operation that would succeed at once: Retry
\* has returned without invoking it, and what it returned is an error.
C35_Witness ==
    /\ rc.MaxAttempts = 0 /\ script[1] = NoError
    /\ rpc = "done" /\ invocations = 0
    /\ rret = AttemptsExceeded(0, NoError)

\* the returned snapshot represents check n by the record its function returned
RecordedAsOwn(n) ==
    IF n \in DOMAIN snapshot.dependencies
    THEN snapshot.dependencies[n] = Normalised(n, CheckResult(snap[n]))
    ELSE FALSE

\* the last call was a propagation from a scope with an attached context
RoundTripped ==
    IF lastCall.op = "PropagateCorrelationHeaders"
    THEN lastCall.heap # <<>> /\ scopes[lastCall.from] # NilPointer
    ELSE FALSE
\* the context the headers were taken from, and the one derived from the request
Origin == lastCall.heap[scopes[lastCall.from]]
Derived == heap[scopes[lastCall.to]]

\* C39 as stated: for every scope with an attached context, the context that
\* CorrelationMiddleware derives from a request PropagateCorrelationHeaders has
\* written the scope's headers onto has the same correlation ID, request ID, trace
\* ID and span ID as the scope's context.
C39_PropagationRoundTrips ==
    RoundTripped =>
        /\ Derived.CorrelationID = Origin.CorrelationID
        /\ Derived.RequestID = Origin.RequestID
        /\ Derived.TraceID = Origin.TraceID
        /\ Derived.SpanID = Origin.SpanID

\* C39 amended: the trace ID and the span ID always come back the same; the request ID
\* does when it is not empty, and the correlation ID does when it is not empty.
\* Otherwise the derived request ID is a newly generated one, and the derived
\* correlation ID is the request ID, else the trace ID, else a newly generated one.
C39_NonEmptyRoundTrips ==
    RoundTripped =>
        /\ Derived.TraceID = Origin.TraceID
        /\ Derived.SpanID = Origin.SpanID
        /\ Origin.RequestID # "" => Derived.RequestID = Origin.RequestID
        /\ Origin.CorrelationID # "" => Derived.CorrelationID = Origin.CorrelationID
        /\ Origin.RequestID = "" => Derived.RequestID \notin {"", "r-1"}
        /\ Origin.CorrelationID = "" => Derived.CorrelationID # ""

\* C39 witness: a context a middleware made with a generated correlation ID, a
\* generated request ID and the span ID of its request has been propagated, and the
\* derived context has the same four identifiers.
C39_Witness ==
    /\ RoundTripped
    /\ Origin.CorrelationID = NewUUID(0) /\ Origin.RequestID = NewUUID(1)
    /\ Origin.TraceID = "" /\ Origin.SpanID = "s-1"
    /\ Derived = Origin

\* the requests with label values l that have entered the middleware and not yet left
\* it: next.ServeHTTP is running, or has returned and the middleware has not
InMiddleware(l) ==
    {q \in DOMAIN requests : LabelsOf(q) = l /\ requests[q].pc \in {"serving", "returned"}}

\* every request that entered has finished, by returning or by the handler panicking
AllFinished == \A q \in DOMAIN requests : requests[q].pc \in {"done", "panicked"}

\* C40: for each (method, route) the in-flight gauge equals the number of requests that
\* have entered the middleware and not yet left it: it is never negative, and once every
\* request that entered has finished, by returning or by the wrapped handler panicking,
\* it is back to the value it had before the first entered (0), whatever the
\* interleaving of the requests
C40_InFlightCountsOpenRequests ==
    \A l \in Labels :
        /\ httpRequestsInFlight[l] = Cardinality(InMiddleware(l))
        /\ httpRequestsInFlight[l] >= 0
        /\ AllFinished => httpRequestsInFlight[l] = 0

\* the function of check n has returned a non-nil result and sent it, and the context
\* of the pass is not done: the deadline has not fired
ReturnedBeforeDeadline(n) ==
    IF hpc = "collect" /\ n \in DOMAIN inner
    THEN inner[n] = "sent" /\ hctx = "live" /\ CheckResult(snap[n]) # NoRecord
    ELSE FALSE

\* C36 as stated: a check whose function returns a non-nil result before the deadline
\* fires is represented in the snapshot by that result, never by a timeout record,
\* however the goroutines are scheduled (the caller's own context not being
\* cancelled).
C36_EarlyResultIsUsed ==
    \A n \in Names :
        [](ReturnedBeforeDeadline(n) =>
              []((hpc = "returned" /\ ~parentDone) => RecordedAsOwn(n)))

\* the record a pass may hold for check n of its copy of the registry
RecordOfPass(n) == {Normalised(n, CheckResult(snap[n])), TimeoutRecord(n)}

\* C38: AddCheck, RemoveCheck and SetTimeout called while a pass of CheckHealth is
\* in flight are not blocked by it (the registry lock is free while the checks run)
\* and do not affect it: they change nothing of the pass, the pass's copies of the
\* checks and of the timeout never change once taken, and the returned snapshot
\* holds a record for exactly the copied checks, each made from the copied check.
C38_RegistryCallsLeavePassAlone ==
    /\ []((hpc = "collect" /\ lateOps > 0) =>
            /\ \A n \in Names : ENABLED RemoveCheck(n)
            /\ \A n \in Names : \A b \in LateBehaviours : ENABLED AddCheck(n, b)
            /\ \A t \in Timeouts : ENABLED SetTimeout(t))
    /\ [][(hchecks' # hchecks \/ htimeout' # htimeout) =>
            UNCHANGED <<hpc, snap, passTimeout, hctx, inner, outer, results, closed,
                        deps, overall, snapshot>>]_vars
    /\ [][hpc # "idle" => UNCHANGED <<snap, passTimeout>>]_vars
    /\ [](hpc = "returned" =>
            /\ DOMAIN snapshot.dependencies = DOMAIN snap
            /\ snapshot.total_checks = Cardinality(DOMAIN snap)
            /\ \A n \in DOMAIN snap : snapshot.dependencies[n] \in RecordOfPass(n))

\* C38 witness: a pass is in flight with a check function still running, and a call
\* made since it started has left the registry with other checks than the pass has.
C38_Witness ==
    /\ hpc = "collect" /\ lateOps < MaxLate
    /\ DOMAIN hchecks # DOMAIN snap
    /\ \E n \in DOMAIN inner : inner[n] = "running"

\* the function of check n is still running and is one that returns
StillRunning(n) ==
    IF n \in DOMAIN inner
    THEN inner[n] = "running" /\ snap[n] \notin {"hang", "panic"} /\ hpc # "crashed"
    ELSE FALSE

\* C37: a check that misses the deadline is abandoned, not joined. The pass closes
\* and returns as soon as every per-check goroutine has recorded something,
\* whether the check functions have returned or not (so a pass that has begun ends
\* even if they never return); a function that returns late
\* can always send its result (the send never blocks); and no step taken after
\* CheckHealth has returned changes the returned snapshot.
C37_AbandonedNotJoined ==
    /\ []((hpc = "collect" /\ ~closed /\ \A n \in DOMAIN outer : outer[n] = "done")
            => ENABLED HealthClose)
    /\ []((hpc = "collect" /\ closed /\ results = <<>>) => ENABLED HealthReturn)
    /\ [](\A n \in Names : StillRunning(n) => ENABLED InnerReturns(n))
    /\ [][hpc = "returned" => snapshot' = snapshot]_vars
    /\ ((hpc = "collect") ~> (hpc \in {"returned", "crashed"}))

\* C37 witness: CheckHealth has returned a snapshot with the timeout record for a
\* check whose function, one that returns, is still running.
C37_Witness ==
    /\ hpc = "returned"
    /\ \E n \in DOMAIN inner :
          /\ StillRunning(n)
          /\ n \in DOMAIN snapshot.dependencies
          /\ snapshot.dependencies[n] = TimeoutRecord(n)

\* a check of the pass that panics or never returns, and a check other than it
Misbehaves(n) == IF n \in DOMAIN snap THEN snap[n] \in {"hang", "panic"} ELSE FALSE
DeliveredBeside(m, n) ==
    IF m # n /\ m \in DOMAIN snap /\ hpc = "returned" THEN inner[m] = "taken" ELSE FALSE

\* C21 as stated: a check function that panics or never returns neither crashes nor
\* blocks the pass: the process is never ended by a panic, a pass that has begun
\* returns, and in the returned snapshot every other check whose result was received
\* is represented by that result.
C21_PanicOrHangIsolated ==
    /\ [](hpc # "crashed")
    /\ ((hpc = "collect") ~> (hpc = "returned"))
    /\ \A n, m \in Names :
          []((Misbehaves(n) /\ DeliveredBeside(m, n)) => RecordedAsOwn(m))

\* the context of the pass is done and the function of check n has not returned
UndeliveredAtDone(n) ==
    IF hpc = "collect" /\ hctx = "done" /\ n \in DOMAIN inner
    THEN inner[n] = "running"
    ELSE FALSE

\* the returned snapshot records check n as UNHEALTHY with the timeout message
RecordedAsTimeout(n) ==
    IF n \in DOMAIN snapshot.dependencies
    THEN snapshot.dependencies[n] = TimeoutRecord(n)
    ELSE FALSE

TypeOK ==
    /\ state \in {StateClosed, StateOpen, StateHalfOpen}
    /\ failures \in 0..(MaxCount + Cardinality(Procs))
    /\ lastFailure \in {ZeroTime} \cup 0..MaxTime
====
